---------------------------- MODULE Spec2Model ----------------------------
(***************************************************************************)
(* A model of the declarative filter compiler of fastapi_views             *)
(* (fastapi_views/filters) and of its in-memory resolver.                  *)
(*                                                                         *)
(* Text (field names, operator tokens, sort tokens, attribute values) is   *)
(* modelled as sequences of one-character strings, so that partition,      *)
(* lstrip, startswith, lower and substring containment are computed and    *)
(* not assumed.  Python values are tagged records.                         *)
(***************************************************************************)
EXTENDS Integers, Sequences, FiniteSets, TLC

\* ------------------------------------------------------------------ bounds

\* Longest `sort` list a request carries.
MaxSort == 2
\* How many times each of get_filters() / get_order_by() is called on one
\* schema instance.
MaxCalls == 2
\* Largest `page` and `page_size` a request carries beside the defaults.
MaxPage == 3
MaxPageSizeIn == 2

\* The longest cursor, in code points.
MaxCursorLen == 3

\* ------------------------------------------------------- program constants

MAX_PAGE_SIZE == 500
DefaultPageSize == 100
DefaultPage == 1
TestPageSize == 10

\* -------------------------------------------------------------------- text

\* The characters of the model in code point order.
Alphabet ==
    << "+", "-",
       "A", "B", "C", "D", "E", "F", "G", "H", "I", "J", "K", "L", "M",
       "N", "O", "P", "Q", "R", "S", "T", "U", "V", "W", "X", "Y", "Z",
       "_",
       "a", "b", "c", "d", "e", "f", "g", "h", "i", "j", "k", "l", "m",
       "n", "o", "p", "q", "r", "s", "t", "u", "v", "w", "x", "y", "z" >>

Ord(c) == CHOOSE i \in DOMAIN Alphabet : Alphabet[i] = c

\* str.lower() on one character: "A".."Z" sit at 3..28, "a".."z" at 30..55.
LowerChar(c) == IF Ord(c) \in 3..28 THEN Alphabet[Ord(c) + 27] ELSE c

StrLower(s) == [i \in DOMAIN s |-> LowerChar(s[i])]

\* Python's < on str: lexicographic by code point.
RECURSIVE StrLess(_, _)
StrLess(a, b) ==
    IF b = << >> THEN FALSE
    ELSE IF a = << >> THEN TRUE
    ELSE IF a[1] # b[1] THEN Ord(a[1]) < Ord(b[1])
    ELSE StrLess(Tail(a), Tail(b))

\* `b in a` for two str.
StrContains(a, b) ==
    \E i \in 0..(Len(a) - Len(b)) : SubSeq(a, i + 1, i + Len(b)) = b

StartsWith(s, p) == Len(s) >= Len(p) /\ SubSeq(s, 1, Len(p)) = p

\* s.lstrip(chars): drop the leading run of characters of the set chars.
RECURSIVE LStrip(_, _)
LStrip(s, chars) ==
    IF s # << >> /\ s[1] \in chars THEN LStrip(Tail(s), chars) ELSE s

Sep == << "_", "_" >>

\* Index of the first "__" of s, 0 when there is none.
FirstSep(s) ==
    LET hits == { i \in 1..(Len(s) - 1) : SubSeq(s, i, i + 1) = Sep }
    IN  IF hits = {} THEN 0 ELSE CHOOSE i \in hits : \A j \in hits : i <= j

HasSep(s) == FirstSep(s) # 0

\* s.rpartition("__") in partition's place: the split at the last
\* occurrence.
LastSep(s) ==
    LET hits == { i \in 1..(Len(s) - 1) : SubSeq(s, i, i + 1) = Sep }
    IN  IF hits = {} THEN 0 ELSE CHOOSE i \in hits : \A j \in hits : i >= j

PartitionAtLast(s) ==
    LET i == LastSep(s)
    IN  IF i = 0 THEN << s, << >>, << >> >>
        ELSE << SubSeq(s, 1, i - 1), Sep, SubSeq(s, i + 2, Len(s)) >>

\* s.partition("__"): (head, sep, tail) at the first occurrence; (s, "", "")
\* when there is none.
Partition(s) ==
    LET i == FirstSep(s)
    IN  IF i = 0 THEN << s, << >>, << >> >>
        ELSE << SubSeq(s, 1, i - 1), Sep, SubSeq(s, i + 2, Len(s)) >>

\* The names of the model.
s_name == << "n", "a", "m", "e" >>
s_age == << "a", "g", "e" >>
s_nick == << "n", "i", "c", "k" >>
s_x == << "x" >>
s_m == << "m" >>
s_child == << "c", "h", "i", "l", "d" >>
s_outer == << "o", "u", "t", "e", "r" >>
s_page == << "p", "a", "g", "e" >>
s_page_size == << "p", "a", "g", "e", "_", "s", "i", "z", "e" >>
s_page_token == << "p", "a", "g", "e", "_", "t", "o", "k", "e", "n" >>
s_sort == << "s", "o", "r", "t" >>
s_query == << "q", "u", "e", "r", "y" >>
s_fields == << "f", "i", "e", "l", "d", "s" >>
s_age__gt == << "a", "g", "e", "_", "_", "g", "t" >>
s_name__ilike == << "n", "a", "m", "e", "_", "_", "i", "l", "i", "k", "e" >>
s_age___gt == << "a", "g", "e", "_", "_", "_", "g", "t" >>
s_age__is__odd ==
    << "a", "g", "e", "_", "_", "i", "s", "_", "_", "o", "d", "d" >>
s_unknown == << "u", "n", "k", "n", "o", "w", "n" >>

s_eq == << "e", "q" >>
s_ne == << "n", "e" >>
s_lt == << "l", "t" >>
s_le == << "l", "e" >>
s_gt == << "g", "t" >>
s_ge == << "g", "e" >>
s_is_null == << "i", "s", "_", "n", "u", "l", "l" >>
s_like == << "l", "i", "k", "e" >>
s_ilike == << "i", "l", "i", "k", "e" >>
s_in == << "i", "n" >>
s_not_in == << "n", "o", "t", "_", "i", "n" >>
s_add == << "a", "d", "d" >>
s_or == << "o", "r" >>
s_and == << "a", "n", "d" >>

s_users == << "u", "s", "e", "r", "s" >>

s_John == << "J", "o", "h", "n" >>
s_Jane == << "J", "a", "n", "e" >>
s_Alice == << "A", "l", "i", "c", "e" >>
s_ace == << "a", "c", "e" >>
s_Jay == << "J", "a", "y" >>

\* ------------------------------------------------------------------ values

None == [t |-> "none"]
IntV(n) == [i |-> n, t |-> "int"]
StrV(s) == [s |-> s, t |-> "str"]
ListV(l) == [t |-> "list", l |-> l]
FilterObj(c, v) == [t |-> "filter", cls |-> c, vals |-> v]

BoolV(b) == [b |-> b, t |-> "bool"]

IsNone(v) == v.t = "none"
IsFilterObj(v) == v.t = "filter"

\* bool(v)
Truthy(v) ==
    CASE v.t = "none" -> FALSE
      [] v.t = "bool" -> v.b
      [] v.t = "int" -> v.i # 0
      [] v.t = "str" -> v.s # << >>
      [] v.t = "list" -> v.l # << >>
      [] OTHER -> TRUE

\* ----------------------------------------------------------------- classes

\* The filter classes of fastapi_views/filters/models.py in definition
\* order, then the client declarations of the model: UserFilter is the
\* class of tests/test_filters.py; RangeFilter declares operator-suffixed
\* fields; OuterFilter nests MidFilter, which nests ChildFilter;
\* CompareFilter declares one field per comparison token; PagedFilter
\* composes pagination with generic fields, one of them called `query`;
\* TreeFilter overrides get_filters() and returns the operations it holds;
\* TokenFilter composes token pagination with operator-suffixed fields.
LibraryClasses ==
    << "ModelFilter", "BasePaginationFilter", "PaginationFilter",
       "TokenPaginationFilter", "OrderingFilter", "SearchFilter",
       "FieldsFilter", "Filter" >>

ClientClasses ==
    << "UserFilter", "RangeFilter", "ChildFilter", "MidFilter", "OuterFilter",
       "CompareFilter", "PagedFilter", "TreeFilter", "TokenFilter" >>

DefinitionOrder == LibraryClasses \o ClientClasses

Range(s) == { s[i] : i \in DOMAIN s }

Classes == {"BaseFilter"} \cup Range(DefinitionOrder)

\* The bases of each class statement (BaseFilter's is pydantic's BaseModel,
\* which carries none of the attributes modelled here).
Bases(c) ==
    CASE c = "BaseFilter" -> << >>
      [] c = "ModelFilter" -> << "BaseFilter" >>
      [] c = "BasePaginationFilter" -> << "BaseFilter" >>
      [] c = "PaginationFilter" -> << "BasePaginationFilter" >>
      [] c = "TokenPaginationFilter" -> << "BasePaginationFilter" >>
      [] c = "OrderingFilter" -> << "BaseFilter" >>
      [] c = "SearchFilter" -> << "BaseFilter" >>
      [] c = "FieldsFilter" -> << "BaseFilter" >>
      [] c = "Filter" ->
            << "PaginationFilter", "OrderingFilter", "SearchFilter",
               "FieldsFilter", "ModelFilter" >>
      [] c = "UserFilter" -> << "Filter" >>
      [] c = "RangeFilter" -> << "ModelFilter" >>
      [] c = "ChildFilter" -> << "SearchFilter", "ModelFilter" >>
      [] c = "MidFilter" -> << "ModelFilter" >>
      [] c = "OuterFilter" -> << "ModelFilter" >>
      [] c = "CompareFilter" -> << "ModelFilter" >>
      [] c = "PagedFilter" -> << "PaginationFilter", "ModelFilter" >>
      [] c = "TreeFilter" -> << "BaseFilter" >>
      [] c = "TokenFilter" -> << "TokenPaginationFilter", "ModelFilter" >>

InSeq(x, s) == \E i \in DOMAIN s : s[i] = x

NonEmpty(s) == s # << >>

\* Python's C3 linearisation: the merge step.
RECURSIVE C3Merge(_)
C3Merge(seqs) ==
    LET ne == SelectSeq(seqs, NonEmpty)
    IN  IF ne = << >> THEN << >>
        ELSE LET good == { i \in DOMAIN ne :
                             \A j \in DOMAIN ne : ~InSeq(ne[i][1], Tail(ne[j])) }
                 k == CHOOSE i \in good : \A j \in good : i <= j
                 h == ne[k][1]
             IN  << h >> \o
                 C3Merge([i \in DOMAIN ne |->
                            IF ne[i][1] = h THEN Tail(ne[i]) ELSE ne[i]])

RECURSIVE C3(_)
C3(c) ==
    << c >> \o C3Merge([i \in DOMAIN Bases(c) |-> C3(Bases(c)[i])]
                       \o << Bases(c) >>)

MROTable == [c \in Classes |-> C3(c)]

\* cls.__mro__, cut after BaseFilter.
MRO(c) == MROTable[c]

\* isinstance(obj, k) for an instance of class c.
IsSubclass(c, k) == InSeq(k, MRO(c))

\* The operator suffixes of CompareFilter's fields, in declaration order.
CompareTokens ==
    << s_ne, s_lt, s_le, s_gt, s_ge, s_in, s_not_in, s_add >>

\* The annotated fields of each class body, in declaration order.
OwnFields(c) ==
    CASE c = "BasePaginationFilter" -> << s_page_size >>
      [] c = "PaginationFilter" -> << s_page >>
      [] c = "TokenPaginationFilter" -> << s_page_token >>
      [] c = "OrderingFilter" -> << s_sort >>
      [] c = "SearchFilter" -> << s_query >>
      [] c = "FieldsFilter" -> << s_fields >>
      [] c = "UserFilter" -> << s_name, s_age >>
      [] c = "RangeFilter" ->
            << s_age__gt, s_name__ilike, s_age__is__odd, s_age___gt >>
      [] c = "ChildFilter" -> << s_x, s_age__gt >>
      [] c = "MidFilter" -> << s_child, s_m >>
      [] c = "OuterFilter" -> << s_outer, s_name >>
      [] c = "CompareFilter" ->
            << s_age >> \o
            [i \in 1..Len(CompareTokens) |-> s_age \o Sep \o CompareTokens[i]]
      [] c = "PagedFilter" -> << s_query, s_age >>
      [] c = "TreeFilter" -> << s_x >>
      [] c = "TokenFilter" -> << s_age__gt, s_age__is__odd >>
      [] OTHER -> << >>

\* type(self).model_fields: the annotations gathered over the reversed
\* __mro__, base-most class first.
RECURSIVE FieldsOver(_, _)
FieldsOver(mro, k) ==
    IF k = 0 THEN << >> ELSE OwnFields(mro[k]) \o FieldsOver(mro, k - 1)

ModelFieldsTable == [c \in Classes |-> FieldsOver(MRO(c), Len(MRO(c)))]

model_fields(c) == ModelFieldsTable[c]

\* Position of a field in model_fields, 0 when it is not declared.
FieldIndex(c, name) ==
    LET hits == { i \in DOMAIN model_fields(c) : model_fields(c)[i] = name }
    IN  IF hits = {} THEN 0 ELSE CHOOSE i \in hits : TRUE

\* Plain class attributes, found on the first class of the __mro__ that
\* sets them.
DeclaresOrdering == { "OrderingFilter", "UserFilter" }
DeclaredOrdering(c) == IF c = "UserFilter" THEN { s_name, s_age } ELSE {}

DeclaresSearch == { "SearchFilter", "UserFilter", "ChildFilter" }
DeclaredSearch(c) ==
    CASE c = "UserFilter" -> { s_name }
      [] c = "ChildFilter" -> { s_name, s_nick }
      [] OTHER -> {}

FirstIn(mro, S) ==
    mro[CHOOSE i \in DOMAIN mro :
            mro[i] \in S /\ \A j \in DOMAIN mro : mro[j] \in S => i <= j]

ordering_fields(c) == DeclaredOrdering(FirstIn(MRO(c), DeclaresOrdering))

search_fields(c) == DeclaredSearch(FirstIn(MRO(c), DeclaresSearch))

\* --------------------------------------------------- special_fields objects

\* `special_fields` is a class attribute holding a set object.  A heap is
\* [objs: the set objects, ref: class -> index of the object its own
\* __dict__ holds, 0 when it holds none].
DeclaresSpecial ==
    { "BasePaginationFilter", "PaginationFilter", "TokenPaginationFilter",
      "OrderingFilter", "SearchFilter", "FieldsFilter" }

DeclaredSpecial(c) ==
    CASE c = "BasePaginationFilter" -> { s_page_size }
      [] c = "PaginationFilter" -> { s_page }
      [] c = "TokenPaginationFilter" -> { s_page_token }
      [] c = "OrderingFilter" -> { s_sort }
      [] c = "SearchFilter" -> { s_query }
      [] c = "FieldsFilter" -> { s_fields }
      [] OTHER -> {}

\* BaseFilter.special_fields = set()
BaseHeap ==
    [objs |-> << {} >>,
     ref |-> [c \in Classes |-> IF c = "BaseFilter" THEN 1 ELSE 0]]

\* Attribute lookup cls.special_fields: the object of the first class of
\* the __mro__ whose __dict__ holds one.
LookupSpecial(h, c) ==
    LET mro == MRO(c)
        k == CHOOSE i \in DOMAIN mro :
                 h.ref[mro[i]] # 0 /\ \A j \in DOMAIN mro : h.ref[mro[j]] # 0 => i <= j
    IN  h.ref[mro[k]]

\* The class body: `special_fields = {...}` binds a new set object.
ClassBody(h, c) ==
    IF c \in DeclaresSpecial
    THEN [objs |-> Append(h.objs, DeclaredSpecial(c)),
          ref |-> [h.ref EXCEPT ![c] = Len(h.objs) + 1]]
    ELSE h

\* BaseFilter.__init_subclass__: the union of the bases' sets, then
\* `cls.special_fields |= parent_special_fields`, which updates in place the
\* object that attribute lookup finds and binds it in cls.__dict__.
init_subclass(h, c) ==
    LET mro == MRO(c)
        parent_special_fields ==
            UNION { h.objs[LookupSpecial(h, mro[i])] : i \in 2..Len(mro) }
        obj == LookupSpecial(h, c)
    IN  [objs |-> [h.objs EXCEPT ![obj] = @ \cup parent_special_fields],
         ref |-> [h.ref EXCEPT ![c] = obj]]

DefineClass(h, c) == init_subclass(ClassBody(h, c), c)

RECURSIVE DefineAll(_, _)
DefineAll(h, order) ==
    IF order = << >> THEN h
    ELSE DefineAll(DefineClass(h, Head(order)), Tail(order))

ImportedHeap == DefineAll(BaseHeap, DefinitionOrder)

\* ------------------------------------------------------------------- state

VARIABLES
    sets,          \* the set objects that special_fields attributes hold
    special_ref,   \* class -> index in sets of its own special_fields, or 0
    hash_order,    \* the order in which this process iterates over set members
    users,         \* the caller's collection handed to apply_filter
    pc,            \* "start", "ready" (a schema instance exists) or "failed"
    kwargs,        \* the construction attempt: class, field values, entry point
    filter,        \* the schema instance, NoFilter before and after a failure
    error,         \* what the construction raised, "none" when nothing
    filters_hist,  \* what each get_filters() call so far returned
    order_hist,    \* what each get_order_by() call so far returned
    result,        \* what apply_filter returned or raised, Unset before
    cache,         \* SQLAlchemyFilterResolver._cache: a set of [key, value]
    calls,         \* thread -> its _get_model_cls call, step by step
    sql,           \* the last call of the relational resolver and its outcome
    cursor,        \* a page token on its way through encode and decode
    result_id,     \* which list object apply_filter returned, 0 before
    request        \* one request on its way through a view's endpoint

vars ==
    << sets, special_ref, hash_order, users, pc, kwargs, filter, error,
       filters_hist, order_hist, result, cache, calls, sql, cursor,
       result_id, request >>

\* What the in-memory resolver and the schema under construction hold.
memory_vars ==
    << users, pc, kwargs, filter, error, filters_hist, order_hist, result >>

\* What the relational resolver and the token functions hold.
relational_vars == << cache, calls, sql, cursor >>

\* What the views hold.
view_vars == << request >>

NoFilter == [t |-> "nofilter"]
NoKwargs == [t |-> "nokwargs"]
Unset == [status |-> "unset", items |-> << >>]

\* No call of the relational resolver yet.
NoSql == [call |-> "none"]

\* The threads that call _get_model_cls, and one that is not in a call.
Threads == { "t1", "t2" }
Idle == [at |-> "idle"]

\* No token yet.
NoCursor == [at |-> "none"]

\* No request yet.
NoRequest == [at |-> "none"]

\* cls.special_fields as attribute lookup finds it now.
special_fields(c) ==
    sets[LookupSpecial([objs |-> sets, ref |-> special_ref], c)]

\* Iteration over a set: its members in the process's order.
RECURSIVE SetIterFrom(_, _)
SetIterFrom(S, order) ==
    IF order = << >> THEN << >>
    ELSE IF Head(order) \in S THEN << Head(order) >> \o SetIterFrom(S, Tail(order))
    ELSE SetIterFrom(S, Tail(order))

SetIter(S) == SetIterFrom(S, hash_order)

\* getattr(self, name)
Field(self, name) == self.vals[FieldIndex(self.cls, name)]

\* -------------------------------------------------------------- operations

FilterOperation(f, op, v) ==
    [kind |-> "filter", field |-> f, operator |-> op, values |-> v]

SortOperation(f, d) == [kind |-> "sort", field |-> f, desc |-> d]

LogicalOperation(op, v) == [kind |-> "logical", operator |-> op, values |-> v]

\* FieldOperation.set_prefix
FieldOperation_set_prefix(op, prefix) ==
    [op EXCEPT !.field = prefix \o Sep \o @]

\* A set_prefix that leaves the values of a LogicalOperation as they are.
set_prefix_shallow(op, prefix) ==
    IF op.kind = "logical" THEN op ELSE FieldOperation_set_prefix(op, prefix)

\* set_prefix on any operation; LogicalOperation.set_prefix passes the prefix
\* to each of its values.
RECURSIVE set_prefix(_, _)
set_prefix(op, prefix) ==
    IF op.kind = "logical"
    THEN [op EXCEPT !.values =
            [i \in DOMAIN op.values |-> set_prefix(op.values[i], prefix)]]
    ELSE FieldOperation_set_prefix(op, prefix)

\* ---------------------------------------------------------------- compiler

\* The classes whose body defines get_filters.
DefinesGetFilters == { "BaseFilter", "ModelFilter", "SearchFilter", "TreeFilter" }

\* The derivation without its `else` branch: the operator always comes from
\* the partition.
FieldFilterOperationNoDefault(field_name, value) ==
    FilterOperation(Partition(field_name)[1], Partition(field_name)[3], value)

\* The operation ModelFilter.get_filters derives from a plain field.
FieldFilterOperation(field_name, value) ==
    IF HasSep(field_name)
    THEN FilterOperation(Partition(field_name)[1], Partition(field_name)[3], value)
    ELSE FilterOperation(field_name, s_eq, value)

\* The search group built as a conjunction.
SearchOperationAnd(self) ==
    LET names == SetIter(search_fields(self.cls))
    IN  LogicalOperation(s_and,
            [i \in DOMAIN names |->
                FilterOperation(names[i], s_ilike, Field(self, s_query))])

\* The `or` group SearchFilter.get_filters appends.
SearchOperation(self) ==
    LET names == SetIter(search_fields(self.cls))
    IN  LogicalOperation(s_or,
            [i \in DOMAIN names |->
                FilterOperation(names[i], s_ilike, Field(self, s_query))])

RECURSIVE get_filters_from(_, _)
RECURSIVE ModelFilter_loop(_, _, _)

\* One pass of the loop of ModelFilter.get_filters, from field i on.
ModelFilter_loop(self, i, filters) ==
    LET fields == model_fields(self.cls)
    IN  IF i > Len(fields) THEN filters
        ELSE LET field_name == fields[i]
                 value == self.vals[i]
             IN  IF field_name \in special_fields(self.cls)
                 THEN ModelFilter_loop(self, i + 1, filters)
                 ELSE IF IsNone(value)
                 THEN ModelFilter_loop(self, i + 1, filters)
                 ELSE IF IsFilterObj(value)
                 THEN LET model_filters == get_filters_from(value, 1)
                      IN  ModelFilter_loop(self, i + 1,
                            filters \o [k \in DOMAIN model_filters |->
                                          set_prefix(model_filters[k], field_name)])
                 ELSE ModelFilter_loop(self, i + 1,
                        Append(filters, FieldFilterOperation(field_name, value)))

\* The search group put in front of the inherited list.
SearchFilter_get_filters_first(self, filters) ==
    IF Truthy(Field(self, s_query))
    THEN << SearchOperation(self) >> \o filters
    ELSE filters

\* SearchFilter.get_filters, given what super().get_filters() returned.
SearchFilter_get_filters(self, filters) ==
    IF Truthy(Field(self, s_query))
    THEN Append(filters, SearchOperation(self))
    ELSE filters

\* get_filters as found from position k of the instance's __mro__ on:
\* position 1 is self.get_filters(), position j + 1 is super().get_filters()
\* inside the implementation of the class at position j.
get_filters_from(self, k) ==
    LET mro == MRO(self.cls)
        j == CHOOSE i \in k..Len(mro) :
                 /\ mro[i] \in DefinesGetFilters
                 /\ \A h \in k..Len(mro) : mro[h] \in DefinesGetFilters => i <= h
    IN  CASE mro[j] = "BaseFilter" -> << >>
          [] mro[j] = "ModelFilter" ->
                ModelFilter_loop(self, 1, get_filters_from(self, j + 1))
          [] mro[j] = "SearchFilter" ->
                SearchFilter_get_filters(self, get_filters_from(self, j + 1))
          [] mro[j] = "TreeFilter" -> self.vals[1].l

get_filters(self) == get_filters_from(self, 1)

SignChars == { "+", "-" }

\* A descending flag taken from any `-` among the leading signs.
SortOperationOfAnyMinus(field_name) ==
    SortOperation(LStrip(field_name, SignChars),
                  \E n \in 1..Len(field_name) :
                      /\ field_name[n] = "-"
                      /\ \A j \in 1..n : field_name[j] \in SignChars)

\* A field name that loses one leading sign only.
SortOperationOfStripOne(field_name) ==
    SortOperation(IF field_name # << >> /\ field_name[1] \in SignChars
                  THEN Tail(field_name) ELSE field_name,
                  StartsWith(field_name, << "-" >>))

\* The SortOperation OrderingFilter.get_order_by derives from one token.
SortOperationOf(field_name) ==
    SortOperation(LStrip(field_name, SignChars), StartsWith(field_name, << "-" >>))

\* OrderingFilter.get_order_by
get_order_by(self) ==
    LET sort == Field(self, s_sort)
    IN  IF IsNone(sort) THEN << >>
        ELSE [i \in DOMAIN sort.l |-> SortOperationOf(sort.l[i])]

\* An offset that counts pages from zero.
offsetFromZero(self) == Field(self, s_page).i * Field(self, s_page_size).i

\* PaginationFilter.offset and .limit
offset(self) == (Field(self, s_page).i - 1) * Field(self, s_page_size).i

\* A limit that takes one item more than the page size.
limitOneMore(self) == Field(self, s_page_size).i + 1

limit(self) == Field(self, s_page_size).i

\* -------------------------------------------------------------- validation

\* A validator that returns after looking at the first token.
validate_sort_first_only(cls, value) ==
    IsNone(value) \/ value.l = << >> \/
    LStrip(value.l[1], SignChars) \in ordering_fields(cls)

\* OrderingFilter.validate_sort: TRUE when it returns, FALSE when it raises.
validate_sort(cls, value) ==
    IsNone(value) \/
    \A i \in DOMAIN value.l : LStrip(value.l[i], SignChars) \in ordering_fields(cls)

\* A keyword argument the caller left out.
Omitted == [t |-> "omitted"]

\* page: PageNumber = 1 and page_size: PageSize = 100; every other field of
\* the modelled schemas defaults to None.
FieldDefault(name) ==
    IF name = s_page THEN IntV(DefaultPage)
    ELSE IF name = s_page_size THEN IntV(DefaultPageSize)
    ELSE None

\* The field values model(**kwargs) validates and stores.
with_defaults(cls, vals) ==
    [i \in DOMAIN vals |->
        IF vals[i] = Omitted THEN FieldDefault(model_fields(cls)[i]) ELSE vals[i]]

\* A page size checked against zero only.
ValidPageSizeNoCap(v) == v.i > 0

\* PageNumber = PositiveInt
ValidPageNumber(v) == v.i > 0

\* PageSize = Annotated[int, Interval(gt=0, le=MAX_PAGE_SIZE)]
ValidPageSize(v) == v.i > 0 /\ v.i <= MAX_PAGE_SIZE

Declares(cls, name) == FieldIndex(cls, name) # 0

\* Whether model(**kwargs) validates: every declared constraint holds.
Validates(cls, vals) ==
    /\ Declares(cls, s_sort) => validate_sort(cls, vals[FieldIndex(cls, s_sort)])
    /\ Declares(cls, s_page) => ValidPageNumber(vals[FieldIndex(cls, s_page)])
    /\ Declares(cls, s_page_size) =>
            ValidPageSize(vals[FieldIndex(cls, s_page_size)])

\* ------------------------------------------------------ in-memory resolver

\* The objects of a collection are records: id stands for the object's
\* identity; name, age and (for some) nick are its attributes.
HasAttr(obj, field) ==
    \/ field \in { s_name, s_age }
    \/ field = s_nick /\ "nick" \in DOMAIN obj

\* operator.attrgetter(field)(obj), for an attribute the object has.
GetAttr(obj, field) ==
    CASE field = s_name -> StrV(obj.name)
      [] field = s_nick -> StrV(obj.nick)
      [] OTHER -> IntV(obj.age)

\* The keys of ObjectFilterResolver.operators.
CustomOperators == { s_is_null, s_like, s_ilike }

\* The operator tokens of the model that name a function of Python's
\* `operator` module: the six comparisons and, of the others, `add`.
\* `in` and `not_in` name none.
OperatorModule == { s_eq, s_ne, s_lt, s_le, s_gt, s_ge, s_add }

Verdict(b) == IF b THEN "T" ELSE "F"

Comparable(a, b) == a.t = b.t /\ a.t \in { "int", "str" }

\* a < b on two comparable values.
ValueLess(a, b) == IF a.t = "int" THEN a.i < b.i ELSE StrLess(a.s, b.s)

\* op(a, b) for the resolved operator: "T", "F", or the error raised.
ApplyOperator(op_name, a, b) ==
    CASE op_name = s_is_null -> Verdict(IF Truthy(b) THEN IsNone(a) ELSE ~IsNone(a))
      [] op_name = s_like ->
            IF a.t = "str" /\ b.t = "str" THEN Verdict(StrContains(a.s, b.s))
            ELSE "TypeError"
      [] op_name = s_ilike ->
            IF a.t = "str" /\ b.t = "str"
            THEN Verdict(StrContains(StrLower(a.s), StrLower(b.s)))
            ELSE "AttributeError"
      [] op_name = s_eq -> Verdict(a = b)
      [] op_name = s_ne -> Verdict(a # b)
      [] op_name = s_lt ->
            IF Comparable(a, b) THEN Verdict(ValueLess(a, b)) ELSE "TypeError"
      [] op_name = s_le ->
            IF Comparable(a, b) THEN Verdict(~ValueLess(b, a)) ELSE "TypeError"
      [] op_name = s_gt ->
            IF Comparable(a, b) THEN Verdict(ValueLess(b, a)) ELSE "TypeError"
      [] op_name = s_ge ->
            IF Comparable(a, b) THEN Verdict(~ValueLess(a, b)) ELSE "TypeError"
      [] op_name = s_add ->
            IF a.t = "int" /\ b.t = "int" THEN Verdict(a.i + b.i # 0)
            ELSE IF a.t = "str" /\ b.t = "str" THEN Verdict(a.s \o b.s # << >>)
            ELSE "TypeError"
      [] OTHER -> "AttributeError"

FirstError(errs) ==
    LET bad == { i \in DOMAIN errs : errs[i] # "none" }
    IN  IF bad = {} THEN "none"
        ELSE errs[CHOOSE i \in bad : \A j \in bad : i <= j]

\* What ObjectFilterResolver.resolve raises for an operation: the operator
\* lookup of a FilterOperation, or the first error among the eagerly
\* resolved values of a LogicalOperation; "none" when it returns.
RECURSIVE ResolveError(_)
ResolveError(op) ==
    CASE op.kind = "logical" ->
            FirstError([i \in DOMAIN op.values |-> ResolveError(op.values[i])])
      [] op.kind = "sort" -> "none"
      [] OTHER ->
            IF op.operator \in CustomOperators \cup OperatorModule
            THEN "none" ELSE "AttributeError"

RECURSIVE Eval(_, _)
RECURSIVE AllFrom(_, _, _)
RECURSIVE AnyFrom(_, _, _)

\* all(f(obj) for f in fields): in order, stopping at the first false one.
AllFrom(ops, obj, i) ==
    IF i > Len(ops) THEN "T"
    ELSE LET r == Eval(ops[i], obj)
         IN  IF r = "T" THEN AllFrom(ops, obj, i + 1) ELSE r

\* any(f(obj) for f in fields): in order, stopping at the first true one.
AnyFrom(ops, obj, i) ==
    IF i > Len(ops) THEN "F"
    ELSE LET r == Eval(ops[i], obj)
         IN  IF r = "F" THEN AnyFrom(ops, obj, i + 1) ELSE r

\* A resolve() that combines the values of every LogicalOperation with any.
EvalAlwaysAny(op, obj) ==
    IF op.kind = "logical"
    THEN AnyFrom(op.values, obj, 1)
    ELSE IF ~HasAttr(obj, op.field) THEN "AttributeError"
    ELSE ApplyOperator(op.operator, GetAttr(obj, op.field), op.values)

\* The predicate resolve() returns for a filter or logical operation,
\* applied to one object.
Eval(op, obj) ==
    IF op.kind = "logical"
    THEN IF op.operator = s_and
         THEN AllFrom(op.values, obj, 1) ELSE AnyFrom(op.values, obj, 1)
    ELSE IF ~HasAttr(obj, op.field) THEN "AttributeError"
    ELSE ApplyOperator(op.operator, GetAttr(obj, op.field), op.values)

Reverse(s) == [i \in DOMAIN s |-> s[Len(s) + 1 - i]]

\* x placed into a sorted list before the first element whose key is
\* greater than x's.
RECURSIVE InsertByKey(_, _, _)
InsertByKey(x, sorted, field) ==
    IF sorted = << >> THEN << x >>
    ELSE IF ValueLess(GetAttr(x, field), GetAttr(Head(sorted), field))
    THEN << x >> \o sorted
    ELSE << Head(sorted) >> \o InsertByKey(x, Tail(sorted), field)

\* A stable ascending sort by the key.
RECURSIVE StableSort(_, _)
StableSort(s, field) ==
    IF s = << >> THEN << >>
    ELSE InsertByKey(s[Len(s)], StableSort(SubSeq(s, 1, Len(s) - 1), field), field)

\* A descending sort obtained by reversing the ascending one: equal elements
\* come out in reverse order.
PySortReversedAfter(s, field, reverse) ==
    IF reverse THEN Reverse(StableSort(s, field)) ELSE StableSort(s, field)

\* list.sort(key=, reverse=): stable; with reverse, the list is reversed,
\* sorted and reversed again, which keeps equal elements in their order.
PySort(s, field, reverse) ==
    IF reverse THEN Reverse(StableSort(Reverse(s), field))
    ELSE StableSort(s, field)

Min(a, b) == IF a <= b THEN a ELSE b

\* s[lo:hi] for 0 <= lo <= hi.
PySlice(s, lo, hi) == SubSeq(s, Min(lo, Len(s)) + 1, Min(hi, Len(s)))

Returned(items) == [status |-> "ok", items |-> items]
Raised(kind) == [status |-> kind, items |-> << >>]

\* [obj for obj in queryset if f(obj)], f the conjunction of the resolved
\* operations.
RECURSIVE FilterObjects(_, _)
FilterObjects(ops, queryset) ==
    IF queryset = << >> THEN Returned(<< >>)
    ELSE LET r == AllFrom(ops, Head(queryset), 1)
             rest == FilterObjects(ops, Tail(queryset))
         IN  IF r \notin { "T", "F" } THEN Raised(r)
             ELSE IF rest.status # "ok" THEN rest
             ELSE IF r = "T" THEN Returned(<< Head(queryset) >> \o rest.items)
             ELSE rest

\* The loop over filter.order_by: one in-place sort per entry.
RECURSIVE SortPasses(_, _)
SortPasses(items, order_by) ==
    IF order_by = << >> THEN Returned(items)
    ELSE IF \E i \in DOMAIN items : ~HasAttr(items[i], Head(order_by).field)
    THEN Raised("AttributeError")
    ELSE SortPasses(PySort(items, Head(order_by).field, Head(order_by).desc),
                    Tail(order_by))

\* ObjectFilterResolver.apply_filter
apply_filter(self, queryset) ==
    LET ops == get_filters(self)
        rerr == FirstError([i \in DOMAIN ops |-> ResolveError(ops[i])])
        filtered == FilterObjects(ops, queryset)
        sorted == IF IsSubclass(self.cls, "OrderingFilter")
                  THEN SortPasses(filtered.items, get_order_by(self))
                  ELSE filtered
    IN  IF rerr # "none" THEN Raised(rerr)
        ELSE IF filtered.status # "ok" THEN filtered
        ELSE IF sorted.status # "ok" THEN sorted
        ELSE IF IsSubclass(self.cls, "PaginationFilter")
        THEN Returned(PySlice(sorted.items, offset(self), offset(self) + limit(self)))
        ELSE sorted

\* A value computed once and handed on under a name, as a local variable is.
Bind(value, Body(_)) == CHOOSE out \in { Body(v) : v \in { value } } : TRUE

\* The list objects of one apply_filter call: object 1 is the list the
\* caller handed in, `queryset` is the object the local name is bound to.
NewFrame(given) == [lists |-> << given >>, queryset |-> 1]

\* An assignment that writes the items into the object the name is bound to,
\* as `queryset[:] = ...` does.
AssignInPlace(fr, list) == [fr EXCEPT !.lists[fr.queryset] = list]

\* `queryset = <list expression>`: a comprehension and a slice each build a
\* new list object, and the name is bound to it.
BindNew(fr, list) ==
    [lists |-> Append(fr.lists, list), queryset |-> Len(fr.lists) + 1]

\* queryset.sort(**resolved): in place, on the object the name is bound to.
SortInPlace(fr, field, reverse) ==
    [fr EXCEPT !.lists[fr.queryset] = PySort(@, field, reverse)]

\* The loop over filter.order_by on the list objects; a key function that
\* raises leaves the list as the earlier passes left it.
RECURSIVE SortLoop(_, _)
SortLoop(fr, order_by) ==
    IF order_by = << >> THEN [status |-> "ok", frame |-> fr]
    ELSE IF \E i \in DOMAIN fr.lists[fr.queryset] :
               ~HasAttr(fr.lists[fr.queryset][i], Head(order_by).field)
    THEN [status |-> "AttributeError", frame |-> fr]
    ELSE SortLoop(SortInPlace(fr, Head(order_by).field, Head(order_by).desc),
                  Tail(order_by))

\* ObjectFilterResolver.apply_filter on list objects: what it raised, and
\* the objects when it ended; the object `queryset` names is the one it
\* returns.
apply_filter_lists(self, queryset) ==
    LET ops == get_filters(self)
        rerr == FirstError([i \in DOMAIN ops |-> ResolveError(ops[i])])
        filtered == FilterObjects(ops, queryset)
    IN  IF rerr # "none" THEN [status |-> rerr, frame |-> NewFrame(queryset)]
        ELSE IF filtered.status # "ok"
        THEN [status |-> filtered.status, frame |-> NewFrame(queryset)]
        ELSE Bind(IF IsSubclass(self.cls, "OrderingFilter")
                  THEN SortLoop(BindNew(NewFrame(queryset), filtered.items),
                                get_order_by(self))
                  ELSE [status |-> "ok",
                        frame |-> BindNew(NewFrame(queryset), filtered.items)],
                  LAMBDA sorted :
                    IF sorted.status = "ok" /\ IsSubclass(self.cls, "PaginationFilter")
                    THEN [status |-> "ok",
                          frame |-> BindNew(sorted.frame,
                                       PySlice(sorted.frame.lists[sorted.frame.queryset],
                                               offset(self), offset(self) + limit(self)))]
                    ELSE sorted)

\* ---------------------------------------------------- relational resolver

\* Two resolver classes deriving from SQLAlchemyFilterResolver, each with a
\* filter_model of its own declarative registry. Neither rebinds _cache.
Resolvers == { "UserResolver", "AuditResolver" }

filter_model(r) == IF r = "UserResolver" THEN "User" ELSE "AuditUser"

\* self.filter_model.registry.mappers: each mapped class with its
\* __tablename__. Both registries map a table called `users`.
Mappers(r) ==
    IF r = "UserResolver"
    THEN << [class_ |-> "User", tablename |-> s_users],
            [class_ |-> "Child", tablename |-> s_child] >>
    ELSE << [class_ |-> "AuditUser", tablename |-> s_users],
            [class_ |-> "AuditNote", tablename |-> s_m] >>

\* The column attributes of the mapped classes and of the aliases a call
\* context can hold.
Columns(model) ==
    CASE model = "User" -> { s_name, s_age }
      [] model = "Child" -> { s_x, s_name, s_nick, s_age, s_x \o Sep \o s_x }
      [] model = "AuditUser" -> { s_name }
      [] model = "AuditNote" -> { s_x }
      [] model = "ChildAlias" -> { s_x, s_name, s_nick, s_age, s_x \o Sep \o s_x }
      [] model = "UserAlias" -> { s_name, s_age }
      [] OTHER -> {}

\* The table names asked for: those of the registries and one of neither.
TableNames == { s_users, s_child, s_m, s_outer }

\* name in self._cache, self._cache[name], self._cache[name] = model_class
CacheHas(c, name) == \E e \in c : e.key = name
CacheGet(c, name) == (CHOOSE e \in c : e.key = name).value
CachePut(c, name, model_class) ==
    { e \in c : e.key # name } \cup { [value |-> model_class, key |-> name] }

\* The loop over the mappers: the first class whose table has the name,
\* "None" when the loop ends without one.
ScanRegistry(r, name) ==
    LET hits == { i \in DOMAIN Mappers(r) : Mappers(r)[i].tablename = name }
    IN  IF hits = {} THEN "None"
        ELSE Mappers(r)[CHOOSE i \in hits : \A j \in hits : i <= j].class_

\* _get_model_cls remembering a miss as well.
_get_model_cls_caching_miss(r, c, name) ==
    IF CacheHas(c, name) THEN [cache |-> c, ret |-> CacheGet(c, name)]
    ELSE [cache |-> CachePut(c, name, ScanRegistry(r, name)),
          ret |-> ScanRegistry(r, name)]

\* SQLAlchemyFilterResolver._get_model_cls run without interruption: what it
\* returns and the cache it leaves.
_get_model_cls(r, c, name) ==
    IF CacheHas(c, name) THEN [cache |-> c, ret |-> CacheGet(c, name)]
    ELSE LET model_class == ScanRegistry(r, name)
         IN  IF model_class = "None" THEN [cache |-> c, ret |-> "None"]
             ELSE [cache |-> CachePut(c, name, model_class), ret |-> model_class]

\* An outcome of a resolver step: the error raised ("none" when it
\* returns), the value returned and the cache afterwards.
Outcome(err, val, c) == [cache |-> c, err |-> err, val |-> val]

\* getattr(model_class, name)
GetColumn(model_class, name, c) ==
    IF name \in Columns(model_class)
    THEN Outcome("none", [model |-> model_class, column |-> name], c)
    ELSE Outcome("AttributeError", None, c)

\* A call context: `table` is the class under the key "table" ("absent"
\* without the key); nested maps each prefix key to the class under its
\* "table" key, "None" when the prefix's dict has no such key.
Context(table, nested) == [table |-> table, nested |-> nested]

\* A resolve_model_field that does not look into the call context.
resolve_model_field_registry_only(r, c, operation, context) ==
    IF HasSep(operation.field)
    THEN LET got == _get_model_cls(r, c, Partition(operation.field)[1])
         IN  GetColumn(got.ret, Partition(operation.field)[3], got.cache)
    ELSE GetColumn(filter_model(r), operation.field, c)

\* SQLAlchemyFilterResolver.resolve_model_field
resolve_model_field(r, c, operation, context) ==
    IF HasSep(operation.field)
    THEN LET prefix == Partition(operation.field)[1]
             name == Partition(operation.field)[3]
             model_class == IF prefix \in DOMAIN context.nested
                            THEN context.nested[prefix] ELSE "None"
         IN  IF model_class # "None" THEN GetColumn(model_class, name, c)
             ELSE LET got == _get_model_cls(r, c, prefix)
                  IN  GetColumn(got.ret, name, got.cache)
    ELSE GetColumn(IF context.table # "absent" THEN context.table
                   ELSE filter_model(r),
                   operation.field, c)

\* The keys of SQLAlchemyFilterResolver.operators.
SqlOperators ==
    { s_eq, s_ne, s_lt, s_le, s_gt, s_ge, s_in, s_not_in, s_is_null, s_like,
      s_ilike, s_and, s_or }

\* fn(column, operation.values) for the function under an operator key: the
\* call made on the column, with the argument it is given.
SqlCall(op_name, column, values) ==
    CASE op_name \in { s_like, s_ilike } ->
            [call |-> op_name, on |-> column,
             arg |-> IF values.t = "str"
                     THEN StrV(<< "%" >> \o values.s \o << "%" >>)
                     ELSE [t |-> "format", of |-> values]]
      [] op_name = s_is_null ->
            [call |-> IF Truthy(values) THEN << "i", "s", "_" >>
                      ELSE << "i", "s", "_", "n", "o", "t" >>,
             on |-> column, arg |-> None]
      [] op_name = s_in ->
            [call |-> << "i", "n", "_" >>, on |-> column, arg |-> values]
      [] op_name = s_not_in ->
            [call |-> << "n", "o", "t", "_", "i", "n", "_" >>,
             on |-> column, arg |-> values]
      [] OTHER -> [call |-> op_name, on |-> column, arg |-> values]

RECURSIVE sql_resolve(_, _, _, _)
RECURSIVE sql_resolve_all(_, _, _, _)

\* [self.resolve(f, **context) for f in operations]: in order, stopping at
\* the first that raises; the cache is handed from one to the next.
sql_resolve_all(r, c, operations, context) ==
    IF operations = << >> THEN Outcome("none", << >>, c)
    ELSE Bind(sql_resolve(r, c, Head(operations), context), LAMBDA first :
          IF first.err # "none" THEN first
          ELSE Bind(sql_resolve_all(r, first.cache, Tail(operations), context),
                    LAMBDA rest :
                IF rest.err # "none" THEN rest
                ELSE Outcome("none", << first.val >> \o rest.val, rest.cache)))

\* SQLAlchemyFilterResolver.resolve. Every function of the operator table
\* takes exactly two arguments.
sql_resolve(r, c, operation, context) ==
    IF operation.kind = "logical"
    THEN IF operation.operator \notin SqlOperators THEN Outcome("KeyError", None, c)
         ELSE Bind(sql_resolve_all(r, c, operation.values, context), LAMBDA args :
               IF args.err # "none" THEN args
               ELSE IF Len(args.val) # 2
               THEN Outcome("TypeError", None, args.cache)
               ELSE Outcome("none",
                            SqlCall(operation.operator, args.val[1], args.val[2]),
                            args.cache))
    ELSE Bind(resolve_model_field(r, c, operation, context), LAMBDA column :
          IF column.err # "none" THEN column
          ELSE IF operation.kind = "sort"
          THEN Outcome("none",
                       IF operation.desc
                       THEN [call |-> << "d", "e", "s", "c" >>,
                             on |-> column.val, arg |-> None]
                       ELSE column.val,
                       column.cache)
          ELSE IF operation.operator \notin SqlOperators
          THEN Outcome("KeyError", None, column.cache)
          ELSE Outcome("none",
                       SqlCall(operation.operator, column.val, operation.values),
                       column.cache))

\* The stages of apply_filter that `exclude` can name.
Stages == { "filter", "sort", "paginate" }

\* A queryset is the sequence of calls made on the caller's queryset.
QueryCall(method, args) == [args |-> args, method |-> method]

\* Token pagination that hands the queryset back as it came.
apply_token_pagination_noop(queryset, c) == Outcome("none", queryset, c)

\* SQLAlchemyFilterResolver.apply_token_pagination
apply_token_pagination(queryset, c) == Outcome("NotImplementedError", None, c)

\* apply_filter sorting although the caller excluded the stage.
SortsAlways(self, excluded) == IsSubclass(self.cls, "OrderingFilter")

\* isinstance(filter, OrderingFilter) and "sort" not in excluded
Sorts(self, excluded) ==
    IsSubclass(self.cls, "OrderingFilter") /\ "sort" \notin excluded

\* SQLAlchemyFilterResolver.apply_filter: what it raises, the queryset it
\* returns, and the cache afterwards.
sql_apply_filter(r, c, self, queryset, excluded, context) ==
    LET sorts == Sorts(self, excluded)
        paginate(q, c2) ==
            IF "paginate" \in excluded THEN Outcome("none", q, c2)
            ELSE IF IsSubclass(self.cls, "PaginationFilter")
            THEN Outcome("none",
                         q \o << QueryCall("offset", offset(self)),
                                 QueryCall("limit", limit(self)) >>,
                         c2)
            ELSE IF IsSubclass(self.cls, "TokenPaginationFilter")
            THEN apply_token_pagination(q, c2)
            ELSE Outcome("none", q, c2)
        sort(q, c1) ==
            IF ~sorts THEN paginate(q, c1)
            ELSE Bind(get_order_by(self), LAMBDA operations :
                  Bind(sql_resolve_all(r, c1, operations, context), LAMBDA order_by :
                   IF order_by.err # "none" THEN order_by
                   ELSE Bind(Append(q, QueryCall("order_by", order_by.val)),
                             LAMBDA q2 : paginate(q2, order_by.cache))))
    IN  IF "filter" \in excluded THEN sort(queryset, c)
        ELSE Bind(get_filters(self), LAMBDA operations :
              Bind(sql_resolve_all(r, c, operations, context), LAMBDA filters :
               IF filters.err # "none" THEN filters
               ELSE Bind(Append(queryset, QueryCall("filter", filters.val)),
                         LAMBDA q1 : sort(q1, filters.cache))))

\* ----------------------------------------------------------------- cursors

\* A cursor string is the sequence of its code points, a bytes object the
\* sequence of its bytes. A step returns a value or raises.
Ok(val) == [err |-> "none", val |-> val]
Fail(err) == [err |-> err, val |-> << >>]

RECURSIVE Flatten(_)
Flatten(seqs) == IF seqs = << >> THEN << >> ELSE Head(seqs) \o Flatten(Tail(seqs))

\* A code point of the surrogate range, which UTF-8 does not encode.
IsSurrogate(cp) == cp >= 55296 /\ cp <= 57343

\* The UTF-8 bytes of one code point.
Utf8Of(cp) ==
    IF cp < 128 THEN << cp >>
    ELSE IF cp < 2048 THEN << 192 + cp \div 64, 128 + (cp % 64) >>
    ELSE IF cp < 65536
    THEN << 224 + cp \div 4096, 128 + ((cp \div 64) % 64), 128 + (cp % 64) >>
    ELSE << 240 + cp \div 262144, 128 + ((cp \div 4096) % 64),
            128 + ((cp \div 64) % 64), 128 + (cp % 64) >>

\* str.encode(): UTF-8, strict.
str_encode(text) ==
    IF \E i \in DOMAIN text : IsSurrogate(text[i]) THEN Fail("UnicodeEncodeError")
    ELSE Ok(Flatten([i \in DOMAIN text |-> Utf8Of(text[i])]))

IsContinuation(data, i) == i <= Len(data) /\ data[i] >= 128 /\ data[i] <= 191

\* bytes.decode(): UTF-8, strict; shortest forms only, no surrogates.
RECURSIVE bytes_decode(_)
bytes_decode(data) ==
    IF data = << >> THEN Ok(<< >>)
    ELSE LET b == data[1]
             n == IF b < 128 THEN 1
                  ELSE IF b >= 194 /\ b <= 223 THEN 2
                  ELSE IF b >= 224 /\ b <= 239 THEN 3
                  ELSE IF b >= 240 /\ b <= 244 THEN 4
                  ELSE 0
             cp == CASE n = 1 -> b
                     [] n = 2 -> (b - 192) * 64 + (data[2] - 128)
                     [] n = 3 -> (b - 224) * 4096 + (data[2] - 128) * 64
                                 + (data[3] - 128)
                     [] n = 4 -> (b - 240) * 262144 + (data[2] - 128) * 4096
                                 + (data[3] - 128) * 64 + (data[4] - 128)
                     [] OTHER -> 0
         IN  IF n = 0 \/ \E i \in 2..n : ~IsContinuation(data, i)
             THEN Fail("UnicodeDecodeError")
             ELSE IF \/ (n = 3 /\ (cp < 2048 \/ IsSurrogate(cp)))
                     \/ (n = 4 /\ (cp < 65536 \/ cp > 1114111))
             THEN Fail("UnicodeDecodeError")
             ELSE Bind(bytes_decode(SubSeq(data, n + 1, Len(data))), LAMBDA rest :
                   IF rest.err # "none" THEN rest ELSE Ok(<< cp >> \o rest.val))

\* The character of a 6-bit value in the standard alphabet: A-Z a-z 0-9 + /
B64Char(v) ==
    IF v < 26 THEN 65 + v
    ELSE IF v < 52 THEN 97 + (v - 26)
    ELSE IF v < 62 THEN 48 + (v - 52)
    ELSE IF v = 62 THEN 43 ELSE 47

\* The 6-bit value of a character, 64 for a character outside the alphabet.
B64Value(ch) ==
    IF ch >= 65 /\ ch <= 90 THEN ch - 65
    ELSE IF ch >= 97 /\ ch <= 122 THEN ch - 97 + 26
    ELSE IF ch >= 48 /\ ch <= 57 THEN ch - 48 + 52
    ELSE IF ch = 43 THEN 62
    ELSE IF ch = 47 THEN 63 ELSE 64

\* base64 encoding that leaves the padding off.
RECURSIVE b64encode_unpadded(_)
b64encode_unpadded(data) ==
    IF data = << >> THEN << >>
    ELSE IF Len(data) = 1
    THEN << B64Char(data[1] \div 4), B64Char((data[1] % 4) * 16) >>
    ELSE IF Len(data) = 2
    THEN << B64Char(data[1] \div 4),
            B64Char((data[1] % 4) * 16 + data[2] \div 16),
            B64Char((data[2] % 16) * 4) >>
    ELSE << B64Char(data[1] \div 4),
            B64Char((data[1] % 4) * 16 + data[2] \div 16),
            B64Char((data[2] % 16) * 4 + data[3] \div 64),
            B64Char(data[3] % 64) >>
         \o b64encode_unpadded(SubSeq(data, 4, Len(data)))

\* base64.b64encode: three bytes to four characters, the last group padded
\* with `=`.
RECURSIVE b64encode(_)
b64encode(data) ==
    IF data = << >> THEN << >>
    ELSE IF Len(data) = 1
    THEN << B64Char(data[1] \div 4), B64Char((data[1] % 4) * 16), 61, 61 >>
    ELSE IF Len(data) = 2
    THEN << B64Char(data[1] \div 4),
            B64Char((data[1] % 4) * 16 + data[2] \div 16),
            B64Char((data[2] % 16) * 4), 61 >>
    ELSE << B64Char(data[1] \div 4),
            B64Char((data[1] % 4) * 16 + data[2] \div 16),
            B64Char((data[2] % 16) * 4 + data[3] \div 64),
            B64Char(data[3] % 64) >>
         \o b64encode(SubSeq(data, 4, Len(data)))

\* bytes.translate between the standard and the URL-safe alphabet.
ToUrlSafe(data) ==
    [i \in DOMAIN data |->
        IF data[i] = 43 THEN 45 ELSE IF data[i] = 47 THEN 95 ELSE data[i]]

FromUrlSafe(data) ==
    [i \in DOMAIN data |->
        IF data[i] = 45 THEN 43 ELSE IF data[i] = 95 THEN 47 ELSE data[i]]

\* binascii.a2b_base64 as b64decode calls it (not strict): characters
\* outside the alphabet are skipped, a completed pad sequence ends the
\* parse, and an incomplete last group is an error. quad_pos is the position
\* in the group of four, pads the `=` seen since the last data character,
\* left the bits not yet written.
RECURSIVE a2b_base64(_, _, _, _, _, _)
a2b_base64(data, i, quad_pos, pads, left, out) ==
    IF i > Len(data)
    THEN IF quad_pos # 0 THEN Fail("binascii.Error") ELSE Ok(out)
    ELSE IF data[i] = 61
    THEN IF quad_pos >= 2 /\ quad_pos + pads + 1 >= 4 THEN Ok(out)
         ELSE a2b_base64(data, i + 1, quad_pos,
                         IF quad_pos >= 2 THEN pads + 1 ELSE pads, left, out)
    ELSE IF B64Value(data[i]) = 64
    THEN a2b_base64(data, i + 1, quad_pos, pads, left, out)
    ELSE LET v == B64Value(data[i])
         IN  CASE quad_pos = 0 -> a2b_base64(data, i + 1, 1, 0, v, out)
               [] quad_pos = 1 ->
                    a2b_base64(data, i + 1, 2, 0, v % 16,
                               Append(out, left * 4 + v \div 16))
               [] quad_pos = 2 ->
                    a2b_base64(data, i + 1, 3, 0, v % 4,
                               Append(out, left * 16 + v \div 4))
               [] OTHER ->
                    a2b_base64(data, i + 1, 0, 0, 0, Append(out, left * 64 + v))

\* base64.urlsafe_b64encode
urlsafe_b64encode(data) == ToUrlSafe(b64encode(data))

\* base64.urlsafe_b64decode
urlsafe_b64decode(data) == a2b_base64(FromUrlSafe(data), 1, 0, 0, 0, << >>)

\* pagination.encode_cursor. The encoded bytes are ASCII, so the final
\* decode() maps each byte to the character with its number.
encode_cursor(text) ==
    Bind(str_encode(text), LAMBDA data :
        IF data.err # "none" THEN data ELSE Ok(urlsafe_b64encode(data.val)))

\* The body of decode_cursor's try block.
try_decode(text) ==
    Bind(str_encode(text), LAMBDA data :
        IF data.err # "none" THEN data
        ELSE Bind(urlsafe_b64decode(data.val), LAMBDA raw :
              IF raw.err # "none" THEN raw ELSE bytes_decode(raw.val)))

\* except (UnicodeDecodeError, ValueError): UnicodeEncodeError and
\* binascii.Error are subclasses of ValueError.
Caught(err) == err \in { "UnicodeDecodeError", "UnicodeEncodeError", "binascii.Error" }

\* pagination.decode_cursor: a caught error hands the cursor back as it
\* came, any other error leaves the function.
decode_cursor(text) ==
    Bind(try_decode(text), LAMBDA decoded :
        IF decoded.err = "none" THEN decoded
        ELSE IF Caught(decoded.err) THEN Ok(text) ELSE decoded)

\* ------------------------------------------------------------------ inputs

User(i, n, a) == [name |-> n, age |-> a, id |-> i]

Nicked(i, n, k, a) == [name |-> n, nick |-> k, age |-> a, id |-> i]

\* The users of tests/test_filters.py.
Fixture == << User(1, s_John, 25), User(2, s_Jane, 30), User(3, s_Alice, 35) >>

\* Users with equal names, equal ages and both, and with a second text
\* attribute.
Ties ==
    << Nicked(1, s_Jane, s_ace, 30), Nicked(2, s_Alice, s_Jay, 30),
       Nicked(3, s_Jane, s_x, 25), Nicked(4, s_Alice, s_ace, 30) >>

Collections == { Fixture, Ties }

SeqsUpTo(S, n) == UNION { [1..k -> S] : k \in 0..n }

Perms(S) == { p \in [1..Cardinality(S) -> S] : Range(p) = S }

HashedNames ==
    UNION { search_fields(c) : c \in { k \in Classes : IsSubclass(k, "SearchFilter") } }

SortTokens ==
    { s_name, << "-" >> \o s_name, << "-" >> \o s_age, << "+", "-" >> \o s_age,
      s_unknown }

\* Sort lists with tokens that carry two signs, a lone sign and a sign
\* inside the name.
SignRunLists ==
    { ListV(<< << "-", "-" >> \o s_name >>),
      ListV(<< << "-", "-" >> \o s_name, << "+", "-" >> \o s_age >>),
      ListV(<< << "+", "+" >> \o s_age, << "-", "+" >> \o s_name >>),
      ListV(<< << "-" >> >>),
      ListV(<< s_name \o << "-" >> >>) }

SortLists == { ListV(l) : l \in SeqsUpTo(SortTokens, MaxSort) } \cup SignRunLists

Queries == { None, StrV(<< >>), StrV(<< "J" >>), StrV(<< "A", "N" >>) }

\* UserFilter(**kwargs), in the order of model_fields.
UserVals(query, sort, page_size, page, name, age) ==
    << None, query, sort, IntV(page_size), IntV(page), name, age >>

UserInputs ==
    { UserVals(None, s, TestPageSize, DefaultPage, None, None) :
        s \in { None } \cup SortLists }
    \cup
    { UserVals(q, s, TestPageSize, DefaultPage, n, a) :
        q \in Queries, s \in { None, ListV(<< s_name >>) },
        n \in { None, StrV(s_Jane) }, a \in { None, IntV(30) } }
    \cup
    { UserVals(None, s, ps, p, None, None) :
        s \in { None, ListV(<< << "-" >> \o s_age >>) },
        p \in 0..MaxPage,
        ps \in (0..MaxPageSizeIn)
                 \cup { DefaultPageSize, MAX_PAGE_SIZE, MAX_PAGE_SIZE + 1 } }
    \cup
    { << None, None, None, ps, p, None, None >> :
        ps \in { Omitted, IntV(MaxPageSizeIn), IntV(MAX_PAGE_SIZE + 1) },
        p \in { Omitted, IntV(-1), IntV(MaxPage) } }

RangeInputs ==
    { << g, l, o, u >> :
        g \in { None, IntV(26) }, l \in { None, StrV(<< "A", "N" >>) },
        o \in { None, IntV(1) }, u \in { None, IntV(18) } }

ChildInstances ==
    { FilterObj("ChildFilter", << q, x, g >>) :
        q \in { None, StrV(<< "J" >>) }, x \in { None, IntV(1) },
        g \in { None, IntV(26) } }

MidInstances ==
    { FilterObj("MidFilter", << c, m >>) :
        c \in { None } \cup ChildInstances, m \in { None, IntV(2) } }

OuterInputs ==
    { << o, n >> : o \in { None } \cup MidInstances, n \in { None, StrV(s_Jane) } }

\* CompareFilter(**kwargs) with at most one field set.
CompareInputs ==
    LET n == Len(model_fields("CompareFilter"))
        value(i, k) ==
            IF Partition(model_fields("CompareFilter")[i])[3] \in { s_in, s_not_in }
            THEN ListV(<< IntV(25), IntV(k) >>) ELSE IntV(k)
    IN  { [i \in 1..n |-> None] }
        \cup { [i \in 1..n |-> IF i = j THEN value(i, k) ELSE None] :
                 j \in 1..n, k \in { 30, 35 } }

\* PagedFilter(**kwargs), in the order of model_fields.
PagedInputs ==
    { << IntV(TestPageSize), IntV(DefaultPage), q, a >> :
        q \in { None, StrV(<< "J" >>) }, a \in { None, IntV(30) } }

TreeLeaves ==
    { FilterOperation(s_age, s_ge, IntV(30)),
      FilterOperation(s_name, s_ilike, StrV(<< "J" >>)),
      FilterOperation(s_nick, s_like, StrV(s_ace)) }

\* Groups of leaves, and groups holding a group.
TreeGroups ==
    LET flat == { LogicalOperation(o, v) :
                    o \in { s_and, s_or }, v \in SeqsUpTo(TreeLeaves, 2) }
    IN  flat \cup
        { LogicalOperation(o, << g, l >>) :
            o \in { s_and, s_or }, l \in TreeLeaves,
            g \in { h \in flat : Len(h.values) \in { 0, 2 }
                                  /\ \A i \in DOMAIN h.values :
                                        h.values[i].field # s_nick } }

\* What TreeFilter.get_filters() returns: no operation, one, or a leaf and
\* a group.
TreeInputs ==
    { << ListV(<< >>) >> }
    \cup { << ListV(<< t >>) >> : t \in TreeLeaves \cup TreeGroups }
    \cup { << ListV(<< FilterOperation(s_age, s_ge, IntV(30)), g >>) >> :
             g \in { h \in TreeGroups : Len(h.values) = 1 } }

\* TokenFilter(**kwargs), in the order of model_fields.
TokenInputs ==
    { << IntV(TestPageSize), t, g, o >> :
        t \in { None, StrV(s_x) }, g \in { None, IntV(26) },
        o \in { None, IntV(1) } }

\* The schema instances handed to the relational resolver.
SqlFilters ==
    { FilterObj("UserFilter", v) :
        v \in { UserVals(None, None, TestPageSize, DefaultPage, None, None),
                UserVals(None, ListV(<< s_name, << "-" >> \o s_age >>), 2, 3,
                         StrV(s_Jane), IntV(30)),
                UserVals(StrV(<< "J" >>), None, TestPageSize, DefaultPage,
                         None, None) } }
    \cup { FilterObj("RangeFilter", v) :
             v \in { w \in RangeInputs :
                       Cardinality({ i \in DOMAIN w : ~IsNone(w[i]) }) <= 1 } }
    \cup { FilterObj("CompareFilter", v) :
             v \in { w \in CompareInputs :
                       \A i \in DOMAIN w : w[i] \notin { IntV(35),
                                                         ListV(<< IntV(25), IntV(35) >>) } } }
    \cup { FilterObj("TokenFilter", v) : v \in { w \in TokenInputs : IsNone(w[2]) } }
    \cup { FilterObj("PagedFilter", v) :
             v \in { w \in PagedInputs : ~IsNone(w[3]) /\ ~IsNone(w[4]) } }
    \cup { FilterObj("TreeFilter", v) :
             v \in { w \in TreeInputs :
                       /\ Len(w[1].l) = 1
                       /\ w[1].l[1] \in TreeGroups
                       /\ \A i \in DOMAIN w[1].l[1].values :
                             w[1].l[1].values[i] =
                                FilterOperation(s_age, s_ge, IntV(30)) } }
    \cup { m \in MidInstances : IsNone(m.vals[2]) }
    \cup { FilterObj("OuterFilter", << m, None >>) :
             m \in { k \in MidInstances :
                       /\ IsNone(k.vals[2])
                       /\ ~IsNone(k.vals[1])
                       /\ ~IsNone(k.vals[1].vals[2])
                       /\ IsNone(k.vals[1].vals[3]) } }

\* The call contexts: none; an alias for the `child` prefix; a `table`
\* override together with a `child` entry that holds no table.
Contexts ==
    { Context("absent", [k \in {} |-> "None"]),
      Context("absent", [k \in { s_child } |-> "ChildAlias"]),
      Context("UserAlias", [k \in { s_child } |-> "None"]) }

\* The operations handed to resolve() directly.
SqlOperations ==
    { FilterOperation(f, o, IntV(30)) :
        f \in { s_age, s_child \o Sep \o s_x, s_outer \o Sep \o s_x,
                s_users \o Sep \o s_name, s_m \o Sep \o s_x,
                s_child \o Sep \o s_x \o Sep \o s_x },
        o \in { s_eq, s_add } }
    \cup { SortOperation(f, d) :
             f \in { s_name, s_child \o Sep \o s_x, s_outer \o Sep \o s_x },
             d \in BOOLEAN }

Inputs ==
    { [cls |-> "UserFilter", vals |-> v] : v \in UserInputs }
    \cup { [cls |-> "CompareFilter", vals |-> v] : v \in CompareInputs }
    \cup { [cls |-> "PagedFilter", vals |-> v] : v \in PagedInputs }
    \cup { [cls |-> "TreeFilter", vals |-> v] : v \in TreeInputs }
    \cup { [cls |-> "RangeFilter", vals |-> v] : v \in RangeInputs }
    \cup { [cls |-> "OuterFilter", vals |-> v] : v \in OuterInputs }
    \cup { [cls |-> c.cls, vals |-> c.vals] : c \in ChildInstances \cup MidInstances }

\* ----------------------------------------------------------------- actions

Init ==
    /\ sets = ImportedHeap.objs
    /\ special_ref = ImportedHeap.ref
    /\ hash_order \in Perms(HashedNames)
    /\ users \in Collections
    /\ pc = "start"
    /\ kwargs = NoKwargs
    /\ filter = NoFilter
    /\ error = "none"
    /\ filters_hist = << >>
    /\ order_hist = << >>
    /\ result = Unset
    /\ cache = {}
    /\ calls = [t \in Threads |-> Idle]
    /\ sql = NoSql
    /\ cursor = NoCursor
    /\ result_id = 0
    /\ request = NoRequest

\* model(**kwargs), called directly: the instance, or pydantic's
\* ValidationError.
Construct ==
    \E in \in Inputs : \E vals \in { with_defaults(in.cls, in.vals) } :
        /\ pc = "start"
        /\ kwargs' = [cls |-> in.cls, vals |-> in.vals, via |-> "model"]
        /\ IF Validates(in.cls, vals)
           THEN /\ filter' = FilterObj(in.cls, vals)
                /\ pc' = "ready"
                /\ error' = "none"
           ELSE /\ filter' = NoFilter
                /\ pc' = "failed"
                /\ error' = "ValidationError"
        /\ UNCHANGED << sets, special_ref, hash_order, users, filters_hist,
                        order_hist, result >>
        /\ UNCHANGED relational_vars
        /\ UNCHANGED << result_id, request >>

\* The dependency FilterDepends(model) builds: FilterWrapper.__new__
\* returns model(**kwargs) and turns pydantic's ValidationError into
\* RequestValidationError.
FilterDepends ==
    \E in \in Inputs : \E vals \in { with_defaults(in.cls, in.vals) } :
        /\ pc = "start"
        /\ kwargs' = [cls |-> in.cls, vals |-> in.vals, via |-> "FilterDepends"]
        /\ IF Validates(in.cls, vals)
           THEN /\ filter' = FilterObj(in.cls, vals)
                /\ pc' = "ready"
                /\ error' = "none"
           ELSE /\ filter' = NoFilter
                /\ pc' = "failed"
                /\ error' = "RequestValidationError"
        /\ UNCHANGED << sets, special_ref, hash_order, users, filters_hist,
                        order_hist, result >>
        /\ UNCHANGED relational_vars
        /\ UNCHANGED << result_id, request >>

\* get_filters() handing out one list shared by all calls, each call
\* appending to it.
GetFiltersShared ==
    /\ pc = "ready"
    /\ Len(filters_hist) < MaxCalls
    /\ filters_hist' =
          Append(filters_hist,
                 (IF filters_hist = << >> THEN << >>
                  ELSE filters_hist[Len(filters_hist)]) \o get_filters(filter))
    /\ UNCHANGED << sets, special_ref, hash_order, users, pc, kwargs, filter,
                    error, order_hist, result >>
    /\ UNCHANGED relational_vars
    /\ UNCHANGED << result_id, request >>

\* filter.filters
GetFilters ==
    /\ pc = "ready"
    /\ Len(filters_hist) < MaxCalls
    /\ filters_hist' = Append(filters_hist, get_filters(filter))
    /\ UNCHANGED << sets, special_ref, hash_order, users, pc, kwargs, filter,
                    error, order_hist, result >>
    /\ UNCHANGED relational_vars
    /\ UNCHANGED << result_id, request >>

\* filter.order_by
GetOrderBy ==
    /\ pc = "ready"
    /\ IsSubclass(filter.cls, "OrderingFilter")
    /\ Len(order_hist) < MaxCalls
    /\ order_hist' = Append(order_hist, get_order_by(filter))
    /\ UNCHANGED << sets, special_ref, hash_order, users, pc, kwargs, filter,
                    error, filters_hist, result >>
    /\ UNCHANGED relational_vars
    /\ UNCHANGED << result_id, request >>

\* resolver.apply_filter(filter, users): what it returns or raises, which
\* list object the returned one is, and the caller's list afterwards.
ApplyFilter ==
    /\ pc = "ready"
    /\ result' = apply_filter(filter, users)
    /\ \E out \in { apply_filter_lists(filter, users) } :
          /\ users' = out.frame.lists[1]
          /\ result_id' = IF out.status = "ok" THEN out.frame.queryset ELSE 0
    /\ UNCHANGED << sets, special_ref, hash_order, pc, kwargs, filter,
                    error, filters_hist, order_hist >>
    /\ UNCHANGED relational_vars
    /\ UNCHANGED request

Next == Construct \/ FilterDepends \/ GetFilters \/ GetOrderBy \/ ApplyFilter

Spec == Init /\ [][Next]_vars

\* ------------------------------------------- actions, relational resolver

\* An earlier request resolved a prefixed field: one whole _get_model_cls
\* call.
Lookup ==
    \E r \in Resolvers, name \in TableNames :
        /\ sql = NoSql
        /\ cache' = _get_model_cls(r, cache, name).cache
        /\ cache' # cache
        /\ UNCHANGED << sets, special_ref, hash_order, calls, sql, cursor, result_id, request >>
        /\ UNCHANGED memory_vars

\* resolver.resolve(operation, **context)
Resolve ==
    /\ sql = NoSql
    /\ \E r \in Resolvers, operation \in SqlOperations, context \in Contexts :
        \E out \in { sql_resolve(r, cache, operation, context) } :
            /\ sql' = [call |-> "resolve", resolver |-> r, arg |-> operation,
                       excluded |-> {}, context |-> context, before |-> cache,
                       err |-> out.err, val |-> out.val]
            /\ cache' = out.cache
            /\ UNCHANGED << sets, special_ref, hash_order, calls, cursor, result_id, request >>
            /\ UNCHANGED memory_vars

\* resolver.apply_filter(filter, queryset, exclude, **context) on a
\* queryset nothing has been called on yet.
SqlApplyFilter ==
    /\ sql = NoSql
    /\ \E r \in Resolvers, self \in SqlFilters, excluded \in SUBSET Stages,
          context \in Contexts :
        \E out \in { sql_apply_filter(r, cache, self, << >>, excluded, context) } :
            /\ sql' = [call |-> "apply_filter", resolver |-> r, arg |-> self,
                       excluded |-> excluded, context |-> context,
                       before |-> cache, err |-> out.err, val |-> out.val]
            /\ cache' = out.cache
            /\ UNCHANGED << sets, special_ref, hash_order, calls, cursor, result_id, request >>
            /\ UNCHANGED memory_vars

SqlNext == Lookup \/ Resolve \/ SqlApplyFilter

\* The collection plays no part in the relational resolver.
SqlInit == Init /\ users = Fixture

SqlSpec == SqlInit /\ [][SqlNext]_vars

\* ------------------------------- actions, concurrent _get_model_cls calls

\* What a _get_model_cls call leaves alone.
CacheFrame ==
    /\ UNCHANGED << sets, special_ref, hash_order, sql, cursor, result_id, request >>
    /\ UNCHANGED memory_vars

InFlight(t) == calls[t].at \notin { "idle", "returned" }

\* A thread enters _get_model_cls(name) on a resolver. `expect` is what the
\* call returns if it runs to its end with no other call in between; `alone`
\* stays true while no other call is in flight during this one.
Call(t) ==
    /\ ~InFlight(t)
    /\ \E r \in Resolvers, name \in TableNames :
          calls' = [u \in Threads |->
                      IF u = t
                      THEN [at |-> "check", resolver |-> r, name |-> name,
                            model_class |-> "None", ret |-> "None",
                            inserted |-> FALSE,
                            expect |-> _get_model_cls(r, cache, name).ret,
                            alone |-> \A v \in Threads \ { t } : ~InFlight(v)]
                      ELSE IF InFlight(u) THEN [calls[u] EXCEPT !.alone = FALSE]
                      ELSE calls[u]]
    /\ UNCHANGED cache
    /\ CacheFrame

\* if name in self._cache
Check(t) ==
    /\ calls[t].at = "check"
    /\ calls' = [calls EXCEPT ![t].at =
                    IF CacheHas(cache, calls[t].name) THEN "fetch" ELSE "scan"]
    /\ UNCHANGED cache
    /\ CacheFrame

\* return self._cache[name]
Fetch(t) ==
    /\ calls[t].at = "fetch"
    /\ calls' = [calls EXCEPT ![t].at = "returned",
                              ![t].ret = CacheGet(cache, calls[t].name)]
    /\ UNCHANGED cache
    /\ CacheFrame

\* The loop over the mappers, which reads nothing another thread writes;
\* it ends at the insertion, or at `return None`.
Scan(t) ==
    /\ calls[t].at = "scan"
    /\ LET model_class == ScanRegistry(calls[t].resolver, calls[t].name)
       IN  calls' = [calls EXCEPT ![t].model_class = model_class,
                                 ![t].at = IF model_class = "None"
                                           THEN "returned" ELSE "insert"]
    /\ UNCHANGED cache
    /\ CacheFrame

\* self._cache[name] = model_class
Insert(t) ==
    /\ calls[t].at = "insert"
    /\ cache' = CachePut(cache, calls[t].name, calls[t].model_class)
    /\ calls' = [calls EXCEPT ![t].at = "return", ![t].inserted = TRUE]
    /\ CacheFrame

\* return model_class
Return(t) ==
    /\ calls[t].at = "return"
    /\ calls' = [calls EXCEPT ![t].at = "returned",
                              ![t].ret = calls[t].model_class]
    /\ UNCHANGED cache
    /\ CacheFrame

CacheNext ==
    \E t \in Threads :
        Call(t) \/ Check(t) \/ Fetch(t) \/ Scan(t) \/ Insert(t) \/ Return(t)

CacheSpec == SqlInit /\ [][CacheNext]_vars

\* --------------------------------------------------------- actions, cursors

\* The code points cursors are made of: A, >, ?, e-acute, the euro sign, a
\* character outside the basic plane, and a lone surrogate.
CodePoints == { 65, 62, 63, 233, 8364, 128512, 55296 }

Cursors == SeqsUpTo(CodePoints, MaxCursorLen)

\* Page tokens a client sends: QQ== and Pj4- (valid), QQ and Q (bad
\* padding), QQ=Q (data after one pad), /w== (bytes that are not UTF-8), a
\* token with a character outside the alphabet, one with a surrogate,
\* QQ==QQ== (data after the padding), QUJD= (a pad too many), QR== (bits
\* set beyond the last byte), !!! and the empty token.
ClientTokens ==
    { << 81, 81, 61, 61 >>, << 80, 106, 52, 45 >>, << 81, 81 >>, << 81 >>,
      << 81, 81, 61, 81 >>, << 47, 119, 61, 61 >>, << 81, 233, 81, 61, 61 >>,
      << 81, 55296 >>, << 81, 81, 61, 61, 81, 81, 61, 61 >>,
      << 81, 85, 74, 68, 61 >>, << 81, 82, 61, 61 >>, << 33, 33, 33 >>, << >> }

\* What moves no cursor.
CursorFrame ==
    /\ UNCHANGED << sets, special_ref, hash_order, cache, calls, sql, result_id, request >>
    /\ UNCHANGED memory_vars

\* encode_cursor(text), as the PageToken serializer calls it.
Encode ==
    /\ cursor.at = "none"
    /\ \E text \in Cursors :
          cursor' = [at |-> "encoded", text |-> text, out |-> encode_cursor(text)]
    /\ CursorFrame

\* decode_cursor on a token encode_cursor returned.
Decode ==
    /\ cursor.at = "encoded"
    /\ cursor.out.err = "none"
    /\ cursor' = [at |-> "decoded", text |-> cursor.text, out |-> cursor.out,
                  back |-> decode_cursor(cursor.out.val)]
    /\ CursorFrame

\* decode_cursor on a token a client sent, as the PageToken validator
\* calls it.
Validate ==
    /\ cursor.at = "none"
    /\ \E token \in ClientTokens :
          cursor' = [at |-> "validated", token |-> token,
                     back |-> decode_cursor(token)]
    /\ CursorFrame

CursorNext == Encode \/ Decode \/ Validate

CursorSpec == SqlInit /\ [][CursorNext]_vars

\* ------------------------------------------------------------ actions, views

\* The endpoints and generic actions a request runs through.
WriteActions == { "create", "update", "partial_update" }
ViewActions == { "retrieve" } \cup WriteActions

\* The view classes come in a sync and an async flavour.
Modes == { "sync", "async" }

\* What retrieve() and the repository hand back: None or one of two objects.
NoneObj == "None"
Stored == { NoneObj, "item1", "item2" }

\* The local name obj before its assignment, and the action's return value
\* before it returns.
NotYet == "not yet"

\* Hooks and repositories are the application's code: they return or raise.
ApplicationError == "ApplicationError"

\* error_message.format(self.get_name()), for a view named Item.
NotFoundMessage == << "Item", " does not exist" >>

\* f"{self.get_name()} already exists"
ConflictMessage == << "Item", " already exists" >>

\* DetailViewMixin.raise_not_found_error
raise_not_found_error(req) ==
    [req EXCEPT !.at = "raised", !.raised = "NotFound",
                !.message = NotFoundMessage]

\* A check that does not consult raise_on_none.
MissingOnly(req) == req.obj = NoneObj

\* `obj is None and self.raise_on_none`
MissingAndRaising(req) == req.obj = NoneObj /\ req.raise_on_none

\* APIView.get_response(content, action=...) followed by View.get_response:
\* the content is validated when validate_response is set, dumped to JSON,
\* and put into the response with status 200.
get_response(req, content) ==
    IF req.validate_response /\ content \notin req.schema_accepts
    THEN [status |-> 0, err |-> "ValidationError", body |-> << >>]
    ELSE [status |-> 200, err |-> "none",
          body |-> IF content = NoneObj THEN << "null" >> ELSE << content >>]

\* The calls a request makes, as its log records them: the hook, the
\* repository method or the view's own method, and which one.
BeforeHookOf(action) == << "before", action >>
AfterHookOf(action) == << "after", action >>
RepositoryMethod(action) ==
    << "repository", IF action = "create" THEN "create" ELSE "update_one" >>
RetrieveCall == << "view", "retrieve" >>
GetResponseCall == << "view", "get_response" >>

\* A write action that calls the after hook whatever the repository returned.
AfterRepositoryUnchecked(req) == [req EXCEPT !.at = "after"]

\* What a write action does with what the repository returned: create raises
\* Conflict on None, update and partial_update raise NotFound, and an object
\* goes on to the after hook.
AfterRepository(req) ==
    IF req.obj = NoneObj
    THEN IF req.action = "create"
         THEN [req EXCEPT !.at = "raised", !.raised = "Conflict",
                          !.message = ConflictMessage]
         ELSE raise_not_found_error(req)
    ELSE [req EXCEPT !.at = "after"]

\* What no view touches.
ViewFrame ==
    /\ UNCHANGED << sets, special_ref, hash_order, result_id >>
    /\ UNCHANGED memory_vars
    /\ UNCHANGED relational_vars

\* A request reaches the endpoint of a view class. The class fixes the
\* action, the flavour, raise_on_none, validate_response and which objects
\* its response schema accepts.
Enter ==
    /\ request.at = "none"
    /\ \E action \in ViewActions, mode \in Modes, raise_on_none \in BOOLEAN,
          validate_response \in BOOLEAN,
          schema_accepts \in { Stored, Stored \ { NoneObj } } :
          request' = [at |-> IF action = "retrieve" THEN "retrieve" ELSE "before",
                      action |-> action, mode |-> mode,
                      raise_on_none |-> raise_on_none,
                      validate_response |-> validate_response,
                      schema_accepts |-> schema_accepts,
                      obj |-> NotYet, log |-> << >>, raised |-> "none",
                      message |-> << >>, response |-> << >>,
                      value |-> NotYet]
    /\ ViewFrame

\* obj = self.retrieve(*args, **kwargs), awaited in the async endpoint.
CallRetrieve ==
    /\ request.at = "retrieve"
    /\ \E out \in Stored \cup { ApplicationError } :
          request' =
              IF out = ApplicationError
              THEN [request EXCEPT !.at = "raised", !.raised = ApplicationError,
                                   !.log = Append(@, RetrieveCall)]
              ELSE [request EXCEPT !.at = "fetched", !.obj = out,
                                   !.log = Append(@, RetrieveCall)]
    /\ ViewFrame

\* if obj is None and self.raise_on_none: self.raise_not_found_error()
CheckNone ==
    /\ request.at = "fetched"
    /\ request' = IF MissingAndRaising(request)
                  THEN raise_not_found_error(request)
                  ELSE [request EXCEPT !.at = "respond"]
    /\ ViewFrame

\* return self.get_response(obj, action="retrieve")
GetResponse ==
    /\ request.at = "respond"
    /\ \E out \in { get_response(request, request.obj) } :
          request' =
              IF out.err # "none"
              THEN [request EXCEPT !.at = "raised", !.raised = out.err,
                                   !.log = Append(@, GetResponseCall)]
              ELSE [request EXCEPT !.at = "returned",
                                   !.response = << out.status, out.body >>,
                                   !.log = Append(@, GetResponseCall)]
    /\ ViewFrame

\* self.before_create(data), before_update(data), before_partial_update(data)
BeforeHook ==
    /\ request.at = "before"
    /\ \E raises \in BOOLEAN :
          request' =
              IF raises
              THEN [request EXCEPT !.at = "raised", !.raised = ApplicationError,
                                   !.log = Append(@, BeforeHookOf(request.action))]
              ELSE [request EXCEPT !.at = "repository",
                                   !.log = Append(@, BeforeHookOf(request.action))]
    /\ ViewFrame

\* obj = self.repository.create(**data), or update_one(data, *args,
\* **kwargs), and the check of what it returned.
RepositoryCall ==
    /\ request.at = "repository"
    /\ \E out \in Stored \cup { ApplicationError } :
          request' =
              IF out = ApplicationError
              THEN [request EXCEPT !.at = "raised", !.raised = ApplicationError,
                                   !.log = Append(@, RepositoryMethod(request.action))]
              ELSE AfterRepository(
                       [request EXCEPT !.obj = out,
                                       !.log = Append(@, RepositoryMethod(request.action))])
    /\ ViewFrame

\* self.after_create(obj), after_update(obj), after_partial_update(obj)
AfterHook ==
    /\ request.at = "after"
    /\ \E raises \in BOOLEAN :
          request' =
              IF raises
              THEN [request EXCEPT !.at = "raised", !.raised = ApplicationError,
                                   !.log = Append(@, AfterHookOf(request.action))]
              ELSE [request EXCEPT !.at = "return",
                                   !.log = Append(@, AfterHookOf(request.action))]
    /\ ViewFrame

\* return obj
ReturnObj ==
    /\ request.at = "return"
    /\ request' = [request EXCEPT !.at = "returned", !.value = request.obj]
    /\ ViewFrame

ViewNext ==
    \/ Enter \/ CallRetrieve \/ CheckNone \/ GetResponse
    \/ BeforeHook \/ RepositoryCall \/ AfterHook \/ ReturnObj

ViewSpec == SqlInit /\ [][ViewNext]_vars

\* ------------------------------------------------------------------ claims

Ready == pc = "ready"

Compiled == Ready /\ Len(filters_hist) >= 1

\* The top-level FilterOperations of a compiled list with the given field.
OpsOnField(ops, name) ==
    { k \in DOMAIN ops : ops[k].kind = "filter" /\ ops[k].field = name }

\* A declared field that ModelFilter compiles: not special, value not null.
Generic(i) ==
    /\ model_fields(filter.cls)[i] \notin special_fields(filter.cls)
    /\ ~IsNone(filter.vals[i])

PlainName(name) == \A j \in 1..(Len(name) - 1) : SubSeq(name, j, j + 1) # Sep

\* x sorts strictly before y under one order-by entry.
KeyBefore(x, y, entry) ==
    IF entry.desc
    THEN ValueLess(GetAttr(y, entry.field), GetAttr(x, entry.field))
    ELSE ValueLess(GetAttr(x, entry.field), GetAttr(y, entry.field))

PositionIn(s, x) == CHOOSE i \in DOMAIN s : s[i] = x

\* x comes before y when compared on entries n, n-1, ..., 1 in turn and
\* last on the position in the collection.
RECURSIVE LastKeyFirst(_, _, _, _)
LastKeyFirst(x, y, order_by, n) ==
    IF n = 0 THEN PositionIn(users, x) < PositionIn(users, y)
    ELSE IF GetAttr(x, order_by[n].field) = GetAttr(y, order_by[n].field)
    THEN LastKeyFirst(x, y, order_by, n - 1)
    ELSE KeyBefore(x, y, order_by[n])

Ids(items) == [i \in DOMAIN items |-> items[i].id]

Sorting ==
    /\ Ready
    /\ IsSubclass(filter.cls, "OrderingFilter")
    /\ result.status = "ok"

\* The objects the filter operations keep, whatever their order.
Kept == { u \in Range(users) : AllFrom(get_filters(filter), u, 1) = "T" }

WholePage == offset(filter) = 0 /\ limit(filter) >= Len(users)

\* C1: apply_filter with order-by entries k1..kn returns the kept objects
\* ordered by the last entry kn (in its direction), ties broken by k(n-1)
\* and so on down to k1, the remaining ties in collection order; the users
\* John(25), Jane(30), Alice(35) sorted by ["name", "-age"] come out as
\* Alice, Jane, John.
C1_LastKeyDominates ==
    Sorting =>
        LET order_by == get_order_by(filter)
            items == result.items
        IN  /\ \A i, j \in DOMAIN items :
                  i < j => LastKeyFirst(items[i], items[j], order_by, Len(order_by))
            /\ WholePage =>
                  Range(items) = Kept /\ Len(items) = Cardinality(Kept)
            /\ ( /\ users = Fixture
                 /\ Field(filter, s_sort) = ListV(<< s_name, << "-" >> \o s_age >>)
                 /\ get_filters(filter) = << >>
                 /\ WholePage )
               => Ids(items) = << 3, 2, 1 >>

\* Two entries on different attributes over users that tie on the last one
\* and, for one pair, on both.
C1_Witness ==
    /\ Sorting
    /\ users = Ties
    /\ Len(result.items) = 4
    /\ LET order_by == get_order_by(filter)
       IN  /\ Len(order_by) = 2
           /\ order_by[1].field = s_name /\ order_by[2].field = s_age
           /\ order_by[2].desc

\* C2: get_filters() yields, for every declared field that is not special,
\* has no `__` in its name and holds a non-null non-filter value, exactly
\* one FilterOperation(field=name, operator="eq", values=value), and no
\* operation for a declared field whose value is null.
C2_EqualityFilter ==
    ( Compiled /\ IsSubclass(filter.cls, "ModelFilter") ) =>
        LET ops == filters_hist[1]
            fields == model_fields(filter.cls)
            eqs(name) == { k \in OpsOnField(ops, name) : ops[k].operator = s_eq }
        IN  \A i \in DOMAIN fields :
                /\ ( Generic(i) /\ PlainName(fields[i])
                     /\ ~IsFilterObj(filter.vals[i]) )
                   => /\ Cardinality(eqs(fields[i])) = 1
                      /\ \A k \in eqs(fields[i]) :
                            ops[k] = [kind |-> "filter", field |-> fields[i],
                                      operator |-> s_eq,
                                      values |-> filter.vals[i]]
                /\ ( PlainName(fields[i]) /\ IsNone(filter.vals[i]) )
                   => eqs(fields[i]) = {}
                /\ IsNone(filter.vals[i])
                   => Len(ops) <= Cardinality({ j \in DOMAIN fields : Generic(j) })
                      \/ \E j \in DOMAIN fields : IsFilterObj(filter.vals[j])
                      \/ IsSubclass(filter.cls, "SearchFilter")

C2_Witness ==
    /\ Compiled
    /\ filter.cls = "UserFilter"
    /\ Field(filter, s_name) = StrV(s_Jane)
    /\ IsNone(Field(filter, s_age))
    /\ filters_hist[1] = << FilterOperation(s_name, s_eq, StrV(s_Jane)) >>

\* C3: for a declared non-special field whose name contains `__` and whose
\* value is non-null, get_filters() yields one FilterOperation whose field is
\* the text before the first `__` and whose operator is all the text after
\* it, whatever that text is (age__gt gives field "age", operator "gt").
C3_OperatorSuffix ==
    Compiled =>
        LET ops == filters_hist[1]
            fields == model_fields(filter.cls)
        IN  /\ \A i \in DOMAIN fields :
                  ( Generic(i) /\ ~PlainName(fields[i])
                    /\ ~IsFilterObj(filter.vals[i]) )
                  => \E h \in 1..(Len(fields[i]) - 1) :
                        /\ SubSeq(fields[i], h, h + 1) = Sep
                        /\ \A j \in 1..(h - 1) : SubSeq(fields[i], j, j + 1) # Sep
                        /\ Cardinality(
                             { k \in DOMAIN ops :
                                 ops[k] = [kind |-> "filter",
                                           field |-> SubSeq(fields[i], 1, h - 1),
                                           operator |->
                                              SubSeq(fields[i], h + 2, Len(fields[i])),
                                           values |-> filter.vals[i]] }) = 1
            /\ ( filter.cls = "RangeFilter" /\ ~IsNone(Field(filter, s_age__gt)) )
               => ops[1] = [kind |-> "filter", field |-> s_age,
                            operator |-> s_gt, values |-> Field(filter, s_age__gt)]

\* A field with two separators and one with three underscores, compiled.
C3_Witness ==
    /\ Compiled
    /\ filter.cls = "RangeFilter"
    /\ ~IsNone(Field(filter, s_age__is__odd))
    /\ ~IsNone(Field(filter, s_age___gt))
    /\ \E k \in DOMAIN filters_hist[1] :
          filters_hist[1][k].operator = << "i", "s", "_", "_", "o", "d", "d" >>
    /\ \E k \in DOMAIN filters_hist[1] :
          filters_hist[1][k].operator = << "_", "g", "t" >>

TopLogical(ops) == { k \in DOMAIN ops : ops[k].kind = "logical" }

Searching == Ready /\ IsSubclass(filter.cls, "SearchFilter")

\* The group is an `or` of one ilike on the query per search field.
IsSearchGroup(op) ==
    /\ op.kind = "logical"
    /\ op.operator = s_or
    /\ Len(op.values) = Cardinality(search_fields(filter.cls))
    /\ { op.values[i].field : i \in DOMAIN op.values } = search_fields(filter.cls)
    /\ \A i \in DOMAIN op.values :
          op.values[i] = [kind |-> "filter", field |-> op.values[i].field,
                          operator |-> s_ilike, values |-> Field(filter, s_query)]

\* q occurs in text when case is ignored.
CIContains(text, q) ==
    \E i \in 0..(Len(text) - Len(q)) :
        \A k \in 1..Len(q) : LowerChar(text[i + k]) = LowerChar(q[k])

MatchesQuery(u) ==
    \E f \in search_fields(filter.cls) :
        HasAttr(u, f) /\ CIContains(GetAttr(u, f).s, Field(filter, s_query).s)

\* No generic field is set: the search group is the only operation.
OnlySearch ==
    \A i \in DOMAIN model_fields(filter.cls) : ~Generic(i)

Unsorted ==
    IsSubclass(filter.cls, "OrderingFilter") => get_order_by(filter) = << >>

Unpaged == IsSubclass(filter.cls, "PaginationFilter") => WholePage

InCollectionOrder(items) ==
    \A i, j \in DOMAIN items :
        i < j => PositionIn(users, items[i]) < PositionIn(users, items[j])

\* What the resolver returns for a search alone.
SearchResult ==
    ( Searching /\ result.status = "ok" /\ OnlySearch /\ Unpaged )
    => /\ Range(result.items) = { u \in Range(users) : MatchesQuery(u) }
       /\ Len(result.items) = Cardinality(Range(result.items))
       /\ Unsorted => InCollectionOrder(result.items)
       /\ ( users = Fixture /\ filter.cls = "UserFilter" /\ Unsorted
            /\ Field(filter, s_query) = StrV(<< "J" >>) )
          => Ids(result.items) = << 1, 2 >>

\* C4 as stated: whenever `query` is present (not null), get_filters()
\* contributes exactly one LogicalOperation(or) holding one ilike
\* FilterOperation per search field, and the resolver returns exactly the
\* objects one of whose search fields contains the query, case ignored.
C4_AsStated ==
    /\ ( Searching /\ Compiled /\ ~IsNone(Field(filter, s_query)) )
       => /\ Cardinality(TopLogical(filters_hist[1])) = 1
          /\ \A k \in TopLogical(filters_hist[1]) : IsSearchGroup(filters_hist[1][k])
    /\ ( Searching /\ ~IsNone(Field(filter, s_query)) ) => SearchResult

\* C4, amended: when `query` is a non-empty string, get_filters()
\* contributes exactly one LogicalOperation(or) holding one ilike
\* FilterOperation per search field, and the resolver returns exactly the
\* objects one of whose search fields contains the query, case ignored, in
\* collection order unless a sort is given; a null or empty query
\* contributes no operation.
C4_SearchGroup ==
    /\ ( Searching /\ Compiled )
       => IF Truthy(Field(filter, s_query))
          THEN /\ Cardinality(TopLogical(filters_hist[1])) = 1
               /\ \A k \in TopLogical(filters_hist[1]) :
                      IsSearchGroup(filters_hist[1][k])
          ELSE TopLogical(filters_hist[1]) = {}
    /\ ( Searching /\ Truthy(Field(filter, s_query)) ) => SearchResult

\* A search over two fields that keeps one user by name and one by nick.
C4_Witness ==
    /\ Searching /\ Compiled
    /\ filter.cls = "ChildFilter"
    /\ OnlySearch
    /\ users = Ties
    /\ Field(filter, s_query) = StrV(<< "J" >>)
    /\ result.status = "ok"
    /\ Ids(result.items) = << 1, 2, 3 >>

Paging ==
    /\ Ready
    /\ IsSubclass(filter.cls, "PaginationFilter")
    /\ result.status = "ok"

\* The filtered and sorted sequence, before pagination.
FullList ==
    LET kept == FilterObjects(get_filters(filter), users).items
    IN  IF IsSubclass(filter.cls, "OrderingFilter")
        THEN SortPasses(kept, get_order_by(filter)).items
        ELSE kept

\* C5: offset = (page-1)*page_size, limit = page_size, and apply_filter
\* returns exactly the slice [offset : offset+limit] of the filtered and
\* sorted sequence: page=1, page_size=10 gives all of three items, page=2,
\* page_size=1 gives exactly the second.
C5_PageSlice ==
    Paging =>
        LET page == Field(filter, s_page).i
            page_size == Field(filter, s_page_size).i
            start == (page - 1) * page_size
            left == Len(FullList) - start
            items == result.items
        IN  /\ offset(filter) = start
            /\ limit(filter) = page_size
            /\ Len(items) = IF left <= 0 THEN 0 ELSE Min(page_size, left)
            /\ \A i \in DOMAIN items : items[i] = FullList[start + i]
            /\ ( page = 1 /\ page_size = TestPageSize ) => items = FullList
            /\ ( users = Fixture /\ page = 2 /\ page_size = 1
                 /\ get_filters(filter) = << >> /\ Unsorted )
               => Ids(items) = << 2 >>

C5_Witness ==
    /\ Paging
    /\ users = Fixture
    /\ Field(filter, s_page) = IntV(2)
    /\ Field(filter, s_page_size) = IntV(1)
    /\ IsNone(Field(filter, s_sort))
    /\ Ids(result.items) = << 2 >>

\* outer is inner with the prefix and a `__` put before the field of every
\* leaf, and nothing else changed.
RECURSIVE PrefixedBy(_, _, _)
PrefixedBy(outer, inner, prefix) ==
    IF inner.kind = "logical"
    THEN /\ outer.kind = "logical"
         /\ outer.operator = inner.operator
         /\ Len(outer.values) = Len(inner.values)
         /\ \A i \in DOMAIN inner.values :
               PrefixedBy(outer.values[i], inner.values[i], prefix)
    ELSE /\ outer.kind = "filter"
         /\ outer.field = prefix \o << "_", "_" >> \o inner.field
         /\ outer.operator = inner.operator
         /\ outer.values = inner.values

s_child__x == << "c", "h", "i", "l", "d", "_", "_", "x" >>
s_outer__child__x ==
    << "o", "u", "t", "e", "r", "_", "_", "c", "h", "i", "l", "d", "_", "_", "x" >>
s_outer__child__name ==
    << "o", "u", "t", "e", "r", "_", "_", "c", "h", "i", "l", "d", "_", "_",
       "n", "a", "m", "e" >>
s_outer__child__nick ==
    << "o", "u", "t", "e", "r", "_", "_", "c", "h", "i", "l", "d", "_", "_",
       "n", "i", "c", "k" >>

\* The nested value at a path of field names, None when a step is null.
RECURSIVE Nested(_, _)
Nested(v, path) ==
    IF path = << >> \/ IsNone(v) THEN v
    ELSE Nested(Field(v, Head(path)), Tail(path))

\* C6: a field typed as a nested filter schema contributes the nested
\* schema's operations with the field name prepended once per nesting level
\* (child + x gives child__x, two levels give outer__child__x), the prefix
\* reaching every leaf of a LogicalOperation, operators and values unchanged.
C6_NestedPrefix ==
    Compiled =>
        LET ops == filters_hist[1]
            fields == model_fields(filter.cls)
            x == Nested(filter, << s_outer, s_child, s_x >>)
            q == Nested(filter, << s_outer, s_child, s_query >>)
        IN  /\ \A i \in DOMAIN fields :
                  ( Generic(i) /\ IsFilterObj(filter.vals[i]) )
                  => LET inner == get_filters(filter.vals[i])
                     IN  \E start \in 0..(Len(ops) - Len(inner)) :
                             \A k \in DOMAIN inner :
                                 PrefixedBy(ops[start + k], inner[k], fields[i])
            /\ ( filter.cls = "MidFilter"
                 /\ ~IsNone(Nested(filter, << s_child, s_x >>)) )
               => \E k \in DOMAIN ops :
                     ops[k] = [kind |-> "filter", field |-> s_child__x,
                               operator |-> s_eq,
                               values |-> Nested(filter, << s_child, s_x >>)]
            /\ ( filter.cls = "OuterFilter" /\ ~IsNone(x) )
               => \E k \in DOMAIN ops :
                     ops[k] = [kind |-> "filter", field |-> s_outer__child__x,
                               operator |-> s_eq, values |-> x]
            /\ ( filter.cls = "OuterFilter" /\ ~IsNone(q) )
               => \E k \in TopLogical(ops) :
                     /\ Len(ops[k].values) = 2
                     /\ { ops[k].values[j].field : j \in DOMAIN ops[k].values }
                          = { s_outer__child__name, s_outer__child__nick }
                     /\ \A j \in DOMAIN ops[k].values :
                           /\ ops[k].values[j].operator = s_ilike
                           /\ ops[k].values[j].values = q

\* Two levels of nesting with a plain inner field and an inner search group.
C6_Witness ==
    /\ Compiled
    /\ filter.cls = "OuterFilter"
    /\ ~IsNone(Nested(filter, << s_outer, s_child, s_x >>))
    /\ ~IsNone(Nested(filter, << s_outer, s_child, s_query >>))
    /\ ~IsNone(Nested(filter, << s_outer, s_child, s_age__gt >>))
    /\ Len(filters_hist[1]) = 3

\* The positions of the compiled fields, in declaration order.
GenericFields ==
    SelectSeq([i \in DOMAIN model_fields(filter.cls) |-> i], Generic)

SignRun(tok) ==
    CHOOSE n \in 0..Len(tok) :
        /\ \A j \in 1..n : tok[j] \in { "+", "-" }
        /\ n < Len(tok) => tok[n + 1] \notin { "+", "-" }

Unsigned(tok) == SubSeq(tok, SignRun(tok) + 1, Len(tok))

\* C8: get_order_by() returns an empty sequence when `sort` is unset, and
\* otherwise one SortOperation per token in token order, the field being
\* the token without its leading signs and the descending flag true exactly
\* for the tokens that start with `-`.
C8_OrderBy ==
    ( Ready /\ IsSubclass(filter.cls, "OrderingFilter") /\ Len(order_hist) >= 1 ) =>
        LET order_by == order_hist[1]
            sort == Field(filter, s_sort)
        IN  IF IsNone(sort) THEN order_by = << >>
            ELSE /\ Len(order_by) = Len(sort.l)
                 /\ \A i \in DOMAIN sort.l :
                       order_by[i] =
                          [kind |-> "sort", field |-> Unsigned(sort.l[i]),
                           desc |-> (sort.l[i] # << >> /\ sort.l[i][1] = "-")]

C8_Witness ==
    /\ Ready
    /\ Len(order_hist) >= 1
    /\ Field(filter, s_sort) = ListV(<< << "+", "-" >> \o s_age, << "-" >> \o s_name >>)
    /\ order_hist[1] = << SortOperation(s_age, FALSE), SortOperation(s_name, TRUE) >>

\* Some sort token names no ordering field.
BadSort(cls, vals) ==
    /\ Declares(cls, s_sort)
    /\ ~IsNone(vals[FieldIndex(cls, s_sort)])
    /\ \E i \in DOMAIN vals[FieldIndex(cls, s_sort)].l :
          Unsigned(vals[FieldIndex(cls, s_sort)].l[i]) \notin ordering_fields(cls)

\* C9: constructing a filter schema with a sort token whose name, stripped
\* of its leading signs, is not in ordering_fields fails with a validation
\* error, so no such instance exists or reaches a resolver; built through
\* FilterDepends, the failure is a RequestValidationError.
C9_SortRejected ==
    /\ ( kwargs # NoKwargs /\ BadSort(kwargs.cls, kwargs.vals) )
       => /\ pc = "failed"
          /\ filter = NoFilter
          /\ result = Unset
          /\ filters_hist = << >>
          /\ order_hist = << >>
          /\ error = IF kwargs.via = "FilterDepends"
                     THEN "RequestValidationError" ELSE "ValidationError"
    /\ Ready => ~BadSort(filter.cls, filter.vals)
    /\ result # Unset => Ready

\* A bad token after a good one, rejected on the FilterDepends path.
C9_Witness ==
    /\ pc = "failed"
    /\ kwargs.via = "FilterDepends"
    /\ kwargs.vals[FieldIndex(kwargs.cls, s_sort)] = ListV(<< s_name, s_unknown >>)
    /\ error = "RequestValidationError"

StandardComparison(tok, a, v) ==
    CASE tok = s_eq -> a = v.i
      [] tok = s_ne -> a # v.i
      [] tok = s_lt -> a < v.i
      [] tok = s_le -> a <= v.i
      [] tok = s_gt -> a > v.i
      [] tok = s_ge -> a >= v.i
      [] tok = s_in -> \E k \in DOMAIN v.l : v.l[k].i = a
      [] tok = s_not_in -> \A k \in DOMAIN v.l : v.l[k].i # a

\* The operator token a declared field name carries.
TokenOf(name) == IF HasSep(name) THEN Partition(name)[3] ELSE s_eq

\* A CompareFilter went through the resolver.
Compared == Ready /\ filter.cls = "CompareFilter" /\ result # Unset

\* C11 as stated: for every operator token among eq, ne, lt, le, gt, ge, in
\* and not_in, the in-memory resolver applies the corresponding standard
\* comparison (membership and non-membership for in and not_in) of the
\* object's field value against operation.values, so apply_filter returns
\* exactly the objects that compare so.
C11_AsStated ==
    Compared =>
        \A i \in DOMAIN filter.vals :
            LET tok == TokenOf(model_fields("CompareFilter")[i])
            IN  ( ~IsNone(filter.vals[i])
                  /\ tok \in { s_eq, s_ne, s_lt, s_le, s_gt, s_ge, s_in, s_not_in } )
                => /\ result.status = "ok"
                   /\ result.items =
                        SelectSeq(users,
                                  LAMBDA u : StandardComparison(tok, u.age, filter.vals[i]))

\* An object satisfies an operation: a leaf when the comparison is true, an
\* `and` group when all its values are satisfied, any other group when at
\* least one is.
RECURSIVE Satisfies(_, _)
Satisfies(obj, op) ==
    IF op.kind = "logical"
    THEN IF op.operator = s_and
         THEN \A i \in DOMAIN op.values : Satisfies(obj, op.values[i])
         ELSE \E i \in DOMAIN op.values : Satisfies(obj, op.values[i])
    ELSE /\ HasAttr(obj, op.field)
         /\ ApplyOperator(op.operator, GetAttr(obj, op.field), op.values) = "T"

SatisfiesAll(obj) ==
    \A k \in DOMAIN get_filters(filter) : Satisfies(obj, get_filters(filter)[k])

\* C12: apply_filter keeps exactly the objects that satisfy every top-level
\* operation of filter.filters, an `and` group holding iff all its children
\* hold and an `or` group iff at least one does, recursively; a filter that
\* compiles to no operations keeps every object.
C12_Conjunction ==
    ( Ready /\ result.status = "ok" ) =>
        LET kept == SelectSeq(users, SatisfiesAll)
            plain == /\ ~IsSubclass(filter.cls, "OrderingFilter")
                     /\ ~IsSubclass(filter.cls, "PaginationFilter")
        IN  /\ Range(result.items) \subseteq Range(kept)
            /\ plain => result.items = kept
            /\ Unpaged => /\ Range(result.items) = Range(kept)
                          /\ Len(result.items) = Len(kept)
            /\ ( get_filters(filter) = << >> /\ Unpaged )
               => Range(result.items) = Range(users)

\* An `or` group holding an `and` group decides differently for users who
\* agree on every single leaf but one.
C12_Witness ==
    /\ Ready
    /\ filter.cls = "TreeFilter"
    /\ users = Ties
    /\ filter.vals[1].l =
         << LogicalOperation(s_or,
              << LogicalOperation(s_and,
                    << FilterOperation(s_age, s_ge, IntV(30)),
                       FilterOperation(s_name, s_ilike, StrV(<< "J" >>)) >>),
                 FilterOperation(s_nick, s_like, StrV(s_ace)) >>) >>
    /\ result.status = "ok"
    /\ Ids(result.items) = << 1, 4 >>

\* The special field names a class and its ancestors declare.
DeclaredUnion(c) == UNION { DeclaredSpecial(MRO(c)[i]) : i \in DOMAIN MRO(c) }

\* The composed classes: Filter and the client schemas.
Composed == { "Filter" } \cup Range(ClientClasses)

\* C13 as stated: for any composed filter class, special_fields is the set
\* union of the special field names declared by the class and by every
\* capability among its ancestors (for Filter: page, page_size, sort, query,
\* fields), so none of those fields is compiled into a generic operation.
C13_AsStated ==
    /\ special_fields("Filter") = { s_page, s_page_size, s_sort, s_query, s_fields }
    /\ \A c \in Composed : special_fields(c) = DeclaredUnion(c)
    /\ ( Compiled /\ IsSubclass(filter.cls, "ModelFilter") )
       => \A i \in DOMAIN model_fields(filter.cls) :
             ( model_fields(filter.cls)[i] \in DeclaredUnion(filter.cls)
               /\ PlainName(model_fields(filter.cls)[i]) )
             => \A k \in OpsOnField(filters_hist[1], model_fields(filter.cls)[i]) :
                   filters_hist[1][k].values # filter.vals[i]

\* ------------------------------------------- claims on the relational resolver

Applied == sql.call = "apply_filter"

Resolved == sql.call = "resolve"

\* The stage a queryset call belongs to.
StageOf(method) ==
    CASE method = "filter" -> "filter"
      [] method = "order_by" -> "sort"
      [] OTHER -> "paginate"

Methods(queryset) == [i \in DOMAIN queryset |-> queryset[i].method]

\* The calls a run is expected to make on the queryset, in order.
ExpectedMethods(self, excluded) ==
    (IF "filter" \in excluded THEN << >> ELSE << "filter" >>)
    \o (IF IsSubclass(self.cls, "OrderingFilter") /\ "sort" \notin excluded
        THEN << "order_by" >> ELSE << >>)
    \o (IF IsSubclass(self.cls, "PaginationFilter") /\ "paginate" \notin excluded
        THEN << "offset", "limit" >> ELSE << >>)

\* The calls of a queryset whose stage is not excluded.
KeptCalls(queryset, excluded) ==
    LET Keep(call) == StageOf(call.method) \notin excluded
    IN  SelectSeq(queryset, Keep)

\* The same request with nothing excluded, from the same cache.
FullRun ==
    sql_apply_filter(sql.resolver, sql.before, sql.arg, << >>, {}, sql.context)

\* C14: apply_filter calls filter, order_by, offset, limit on the queryset in
\* that order, leaving out exactly the excluded stages (and order_by for a
\* filter without the ordering capability); each call it makes has the
\* arguments the run with nothing excluded gives it, excluding stages never
\* makes a run fail, and with all three stages excluded the queryset is
\* returned as it was passed.
C14_StageOrder ==
    Applied =>
        /\ sql.err = "none" =>
              /\ Methods(sql.val) = ExpectedMethods(sql.arg, sql.excluded)
              /\ sql.excluded = Stages => sql.val = << >>
        /\ FullRun.err = "none" =>
              /\ sql.err = "none"
              /\ sql.val = KeptCalls(FullRun.val, sql.excluded)

\* A sortable, paginated filter with a sort and a criterion, applied with
\* only the sort stage excluded.
C14_Witness ==
    /\ Applied
    /\ sql.err = "none"
    /\ sql.excluded = { "sort" }
    /\ IsSubclass(sql.arg.cls, "OrderingFilter")
    /\ Len(get_order_by(sql.arg)) >= 1
    /\ Methods(sql.val) = << "filter", "offset", "limit" >>
    /\ Len(sql.val[1].args) >= 1
    /\ Len(FullRun.val) = 4

\* A token-paginated filter applied with the paginate stage not excluded.
TokenPaginated ==
    /\ Applied
    /\ IsSubclass(sql.arg.cls, "TokenPaginationFilter")
    /\ ~IsSubclass(sql.arg.cls, "PaginationFilter")
    /\ "paginate" \notin sql.excluded

\* The same request with the paginate stage excluded as well.
UnpaginatedRun ==
    sql_apply_filter(sql.resolver, sql.before, sql.arg, << >>,
                     sql.excluded \cup { "paginate" }, sql.context)

\* C15 as stated: a token-paginated run always raises NotImplementedError.
C15_AsStated == TokenPaginated => sql.err = "NotImplementedError"

\* C15: a token-paginated run never returns a queryset. It raises
\* NotImplementedError when the stages before pagination pass, and otherwise
\* the error of the first of those stages that fails.
C15_NeverReturns ==
    TokenPaginated =>
        /\ sql.err # "none"
        /\ sql.val = None
        /\ sql.err = "NotImplementedError" <=> UnpaginatedRun.err = "none"
        /\ UnpaginatedRun.err # "none" => sql.err = UnpaginatedRun.err

\* A token-paginated filter with a criterion the resolver accepts, applied
\* with nothing excluded, raising NotImplementedError.
C15_Witness ==
    /\ TokenPaginated
    /\ sql.excluded = {}
    /\ Len(get_filters(sql.arg)) >= 1
    /\ sql.err = "NotImplementedError"

\* The table names of the registries of all resolvers.
RegisteredTables ==
    { Mappers(r)[i].tablename : r \in Resolvers, i \in 1..2 }

\* resolve() was handed a field operation whose prefix is no key of the
\* context and no table of any registry.
UnresolvablePrefix ==
    /\ Resolved
    /\ sql.arg.kind # "logical"
    /\ HasSep(sql.arg.field)
    /\ Partition(sql.arg.field)[1] \notin DOMAIN sql.context.nested
    /\ Partition(sql.arg.field)[1] \notin RegisteredTables

\* C16: resolve() of a field whose prefix is neither a context key nor a
\* registered table name raises (AttributeError, from the attribute lookup
\* on the None that _get_model_cls returns), returns nothing, and leaves the
\* cache as it was, without an entry for the prefix.
C16_UnresolvablePrefixFails ==
    UnresolvablePrefix =>
        /\ sql.err = "AttributeError"
        /\ sql.val = None
        /\ cache = sql.before
        /\ ~CacheHas(cache, Partition(sql.arg.field)[1])

\* An unresolvable prefix met with a cache that already holds entries and
\* a context that has another prefix.
C16_Witness ==
    /\ UnresolvablePrefix
    /\ sql.before # {}
    /\ DOMAIN sql.context.nested # {}
    /\ sql.arg.kind = "filter"
    /\ sql.err # "none"

\* The operator tokens of operations.Operator.
RecognizedOperators ==
    { s_eq, s_ne, s_lt, s_le, s_gt, s_ge, s_in, s_not_in, s_is_null, s_like,
      s_ilike }

\* The compiled top-level FilterOperations whose token is not recognized.
Unrecognized(ops) ==
    { k \in DOMAIN ops :
        ops[k].kind = "filter" /\ ops[k].operator \notin RecognizedOperators }

LookupErrors == { "KeyError", "AttributeError" }

\* C17 as stated: the compiler passes an unrecognized operator token on, and
\* resolving the operation then fails with a lookup error in the in-memory
\* resolver (apply_filter resolves every compiled operation) and in the
\* relational resolver alike; no predicate or expression comes out.
C17_AsStated ==
    /\ ( Ready /\ result # Unset /\ Unrecognized(get_filters(filter)) # {} )
         => /\ result.status \in LookupErrors
            /\ result.items = << >>
    /\ ( Resolved /\ sql.arg.kind = "filter"
         /\ sql.arg.operator \notin RecognizedOperators )
         => /\ sql.err \in LookupErrors
            /\ sql.val = None

\* resolve() was handed a filter or sort operation.
ResolvedField == Resolved /\ sql.arg.kind # "logical"

\* Where the first "__" of the operation's field starts, 0 without one.
SplitAt ==
    LET field == sql.arg.field
        at == { i \in 1..(Len(field) - 1) : field[i] = "_" /\ field[i + 1] = "_" }
    IN  IF at = {} THEN 0 ELSE CHOOSE i \in at : \A j \in at : i <= j

PrefixPart == SubSeq(sql.arg.field, 1, SplitAt - 1)

NamePart ==
    IF SplitAt = 0 THEN sql.arg.field
    ELSE SubSeq(sql.arg.field, SplitAt + 2, Len(sql.arg.field))

\* The model the claim has the resolver choose, "None" when there is none.
ChosenModel ==
    IF SplitAt = 0
    THEN IF sql.context.table # "absent" THEN sql.context.table
         ELSE filter_model(sql.resolver)
    ELSE IF PrefixPart \in DOMAIN sql.context.nested
            /\ sql.context.nested[PrefixPart] # "None"
    THEN sql.context.nested[PrefixPart]
    ELSE IF \E e \in sql.before : e.key = PrefixPart
    THEN (CHOOSE e \in sql.before : e.key = PrefixPart).value
    ELSE LET mappers == Mappers(sql.resolver)
             hits == { i \in DOMAIN mappers : mappers[i].tablename = PrefixPart }
         IN  IF hits = {} THEN "None"
             ELSE mappers[CHOOSE i \in hits : \A j \in hits : i <= j].class_

\* The scan of the registry ran and found a class.
ScanFound ==
    /\ SplitAt # 0
    /\ ~(PrefixPart \in DOMAIN sql.context.nested
           /\ sql.context.nested[PrefixPart] # "None")
    /\ ~(\E e \in sql.before : e.key = PrefixPart)
    /\ ChosenModel # "None"

\* The column resolve() built its result on.
ResolvedColumn ==
    IF sql.arg.kind = "sort" /\ ~sql.arg.desc THEN sql.val ELSE sql.val.on

\* C26: the relational resolver splits a field at its first "__" into
\* prefix and name; the model is the one the context holds for the prefix
\* when it holds one, otherwise the remembered or newly scanned class of the
\* registry; without "__" it is the context's table when given and
\* filter_model otherwise; the column is the attribute `name` of that model,
\* and a scan that finds a class is remembered under the prefix.
C26_ModelField ==
    ResolvedField =>
        /\ IF NamePart \in Columns(ChosenModel)
           THEN /\ sql.err \in { "none", "KeyError" }
                /\ sql.err = "none" =>
                       ResolvedColumn = [model |-> ChosenModel, column |-> NamePart]
           ELSE sql.err = "AttributeError"
        /\ cache =
              IF ScanFound
              THEN sql.before \cup { [value |-> ChosenModel, key |-> PrefixPart] }
              ELSE sql.before

\* A field with two "__" resolved through the context's alias for its
\* prefix, with the cache holding another prefix.
C26_Witness ==
    /\ ResolvedField
    /\ sql.arg.field = s_child \o Sep \o s_x \o Sep \o s_x
    /\ sql.err = "none"
    /\ ResolvedColumn = [model |-> "ChildAlias", column |-> s_x \o Sep \o s_x]
    /\ sql.before # {}

\* ------------------------------------------------ claims on the class cache

\* A call that has returned.
Finished(t) == calls[t].at = "returned"

\* C18 as stated: however _get_model_cls calls interleave, an entry a call
\* has inserted stays in the cache with the value that call inserted, and a
\* call returns what it would have returned had it run alone from the cache
\* it started with.
C18_AsStated ==
    \A t \in Threads :
        /\ ( calls[t].at \in { "return", "returned" } /\ calls[t].inserted )
             => /\ CacheHas(cache, calls[t].name)
                /\ CacheGet(cache, calls[t].name) = calls[t].model_class
        /\ Finished(t) => calls[t].ret = calls[t].expect

\* C19 as stated: a call during which no other call was in flight returns
\* the class an uncached scan of its own resolver's registry returns.
C19_AsStated ==
    \A t \in Threads :
        ( Finished(t) /\ calls[t].alone )
            => calls[t].ret = ScanRegistry(calls[t].resolver, calls[t].name)

\* ---------------------------------------------------------- claims on cursors

\* C20 as stated: every string can be encoded, and decoding what
\* encode_cursor returned gives the string back.
C20_AsStated ==
    /\ cursor.at = "encoded" => cursor.out.err = "none"
    /\ cursor.at = "decoded" => cursor.back = Ok(cursor.text)

\* C20: encode_cursor returns a token for every string without a lone
\* surrogate, the token is made of URL-safe base64 characters only, and
\* decode_cursor of it is the string.
C20_RoundTrip ==
    /\ ( cursor.at = "encoded"
         /\ \A i \in DOMAIN cursor.text : ~IsSurrogate(cursor.text[i]) )
         => /\ cursor.out.err = "none"
            /\ \A i \in DOMAIN cursor.out.val :
                  \/ B64Value(cursor.out.val[i]) < 62
                  \/ cursor.out.val[i] \in { 45, 95, 61 }
    /\ cursor.at = "decoded" => cursor.back = Ok(cursor.text)

\* A cursor of several bytes per character whose token needs padding and
\* holds a URL-safe character, decoded back.
C20_Witness ==
    /\ cursor.at = "decoded"
    /\ Len(cursor.text) = MaxCursorLen
    /\ \E i \in DOMAIN cursor.text : cursor.text[i] > 127
    /\ \E i \in DOMAIN cursor.out.val : cursor.out.val[i] = 61
    /\ \E i \in DOMAIN cursor.out.val : cursor.out.val[i] \in { 45, 95 }
    /\ cursor.back = Ok(cursor.text)

\* A token encode_cursor can return: it decodes, and encoding the decoded
\* text gives the token again.
WellFormed(token) ==
    /\ try_decode(token).err = "none"
    /\ encode_cursor(try_decode(token).val) = Ok(token)

\* C21 as stated: decode_cursor raises for no token, and a token that is
\* not a well-formed encoded cursor comes back unchanged.
C21_AsStated ==
    cursor.at = "validated" =>
        /\ cursor.back.err = "none"
        /\ ~WellFormed(cursor.token) => cursor.back.val = cursor.token

\* What does hold of decode_cursor: it raises for no token; a token whose
\* decoding fails (text that has no UTF-8 encoding, an incomplete base64
\* group, bytes that are not UTF-8) comes back unchanged, and a well-formed
\* token comes back as the text it encodes.
LenientFallback ==
    cursor.at = "validated" =>
        /\ cursor.back.err = "none"
        /\ try_decode(cursor.token).err # "none" => cursor.back.val = cursor.token
        /\ WellFormed(cursor.token) =>
              encode_cursor(cursor.back.val) = Ok(cursor.token)

\* ------------------------------------------------------ claims on pagination

\* model(**kwargs) was called on a schema with page-number pagination.
PaginatedCall == kwargs # NoKwargs /\ IsSubclass(kwargs.cls, "PaginationFilter")

\* The page and page_size the call carries, defaults filled in.
GivenPage == with_defaults(kwargs.cls, kwargs.vals)[FieldIndex(kwargs.cls, s_page)].i

GivenPageSize ==
    with_defaults(kwargs.cls, kwargs.vals)[FieldIndex(kwargs.cls, s_page_size)].i

InRange == GivenPage >= 1 /\ GivenPageSize >= 1 /\ GivenPageSize <= MAX_PAGE_SIZE

ResolvableGroups ==
    LET ops == get_filters(sql.arg)
    IN  { k \in DOMAIN ops :
            /\ ops[k].kind = "logical"
            /\ Len(ops[k].values) >= 1
            /\ sql_resolve_all(sql.resolver, sql.before, ops[k].values,
                               sql.context).err = "none" }

\* C23 as stated: the relational resolver turns a group of n >= 1 children
\* that resolve into an expression, whatever n is.
C23_AsStated ==
    ( Applied /\ "filter" \notin sql.excluded ) =>
        \A k \in ResolvableGroups :
            sql_resolve(sql.resolver, sql.before, get_filters(sql.arg)[k],
                        sql.context).err = "none"

\* What does hold: a group of exactly two children that resolve becomes the
\* operator's call on the two resolved children, and a group of any other
\* size raises TypeError.
BinaryGroupsOnly ==
    ( Applied /\ "filter" \notin sql.excluded ) =>
        \A k \in ResolvableGroups :
            LET group == get_filters(sql.arg)[k]
                out == sql_resolve(sql.resolver, sql.before, group, sql.context)
                args == sql_resolve_all(sql.resolver, sql.before, group.values,
                                        sql.context).val
            IN  IF Len(group.values) = 2
                THEN /\ out.err = "none"
                     /\ out.val = [call |-> group.operator, on |-> args[1],
                                   arg |-> args[2]]
                ELSE out.err = "TypeError"

\* ------------------------------------------------------------ claims on views

\* The request is in a retrieve endpoint whose retrieve() returned None.
RetrievedNone ==
    /\ request.at \in { "respond", "returned", "raised" }
    /\ request.action = "retrieve"
    /\ request.obj = NoneObj

\* C24: a retrieve endpoint, sync or async, whose retrieve() returned None
\* raises NotFound without ever calling get_response when raise_on_none is
\* true; when it is false it never raises NotFound and ends with what
\* get_response(None) gives, the response it builds for any object.
C24_RetrieveNone ==
    RetrievedNone =>
        IF request.raise_on_none
        THEN /\ request.at = "raised"
             /\ request.raised = "NotFound"
             /\ request.message = NotFoundMessage
             /\ request.log = << RetrieveCall >>
             /\ request.response = << >>
        ELSE /\ request.raised # "NotFound"
             /\ request.at = "respond" => request.log = << RetrieveCall >>
             /\ request.at # "respond" =>
                    /\ request.log = << RetrieveCall, GetResponseCall >>
                    /\ LET out == get_response(request, NoneObj)
                       IN  IF out.err = "none"
                           THEN /\ request.at = "returned"
                                /\ request.response = << out.status, out.body >>
                           ELSE /\ request.at = "raised"
                                /\ request.raised = out.err

\* Both flavours of the endpoint have met a missing object under both
\* settings: this state is the async one answering 200 with raise_on_none
\* false.
C24_Witness ==
    /\ RetrievedNone
    /\ request.mode = "async"
    /\ ~request.raise_on_none
    /\ request.at = "returned"
    /\ request.response = << 200, << "null" >> >>

\* The request is in one of the generic write actions.
WriteRequest == request.at # "none" /\ request.action \in WriteActions

\* The calls of a write action that runs to its end, in order.
FullOrder(action) ==
    << BeforeHookOf(action), RepositoryMethod(action), AfterHookOf(action) >>

\* C25: in every generic write action (create, update, partial_update; sync
\* and async) the calls made so far are an initial part of before hook,
\* repository call, after hook; when the repository returned None the action
\* has raised Conflict (create) or NotFound (update, partial_update) and the
\* after hook was not called; an action that returned ran all three and
\* returned the object the repository returned.
C25_WriteOrder ==
    WriteRequest =>
        /\ Len(request.log) <= 3
        /\ request.log = SubSeq(FullOrder(request.action), 1, Len(request.log))
        /\ request.obj = NoneObj =>
               /\ request.at = "raised"
               /\ request.raised =
                      IF request.action = "create" THEN "Conflict" ELSE "NotFound"
               /\ Len(request.log) = 2
        /\ request.at = "returned" =>
               /\ Len(request.log) = 3
               /\ request.obj \in Stored \ { NoneObj }
               /\ request.value = request.obj

\* An async partial_update whose repository found nothing has raised NotFound
\* after the before hook and the repository call.
C25_Witness ==
    /\ WriteRequest
    /\ request.action = "partial_update"
    /\ request.mode = "async"
    /\ request.obj = NoneObj
    /\ request.raised = "NotFound"
    /\ request.log = << BeforeHookOf("partial_update"), RepositoryMethod("partial_update") >>

\* --------------------------------------------------- claims on special_fields

\* The heap once the first k class statements of the import have run.
HeapAfter(k) == DefineAll(BaseHeap, SubSeq(DefinitionOrder, 1, k))

\* cls.special_fields as attribute lookup finds it in a heap.
SpecialIn(h, c) == h.objs[LookupSpecial(h, c)]

\* The classes that exist once k class statements have run.
DefinedAfter(k) == { "BaseFilter" } \cup { DefinitionOrder[i] : i \in 1..k }

\* C27 as stated: defining a filter class leaves the special_fields of every
\* class defined before it as they were, and every class's special_fields is
\* the union of the names it and its ancestors declare: PaginationFilter's
\* is {page, page_size} and BaseFilter's is empty after Filter and the
\* client schemas are defined.
C27_AsStated ==
    /\ \A k \in 1..Len(DefinitionOrder) : \A c \in DefinedAfter(k - 1) :
           SpecialIn(HeapAfter(k), c) = SpecialIn(HeapAfter(k - 1), c)
    /\ \A c \in Classes : special_fields(c) = DeclaredUnion(c)
    /\ special_fields("PaginationFilter") = { s_page, s_page_size }
    /\ special_fields("BaseFilter") = {}

\* What does hold: every class's special_fields contains the union of the
\* names it and its ancestors declare, and BaseFilter's stays empty under the
\* classes defined here.
SpecialFieldsLowerBound ==
    /\ \A c \in Classes : DeclaredUnion(c) \subseteq special_fields(c)
    /\ special_fields("BaseFilter") = {}

\* ------------------------------------------- claims on the caller's collection

\* The list object apply_filter returned holds the items it returned.
ReturnedObjectHoldsResult ==
    result.status = "ok" =>
        LET out == apply_filter_lists(filter, users)
        IN  /\ out.status = "ok"
            /\ result_id = out.frame.queryset
            /\ out.frame.lists[result_id] = result.items

\* C28: ObjectFilterResolver.apply_filter never changes the collection it
\* is given; what it returns is another list object than the caller's, and
\* every element of it is an element of the collection.
C28_InputUntouched ==
    [][ /\ users' = users
        /\ result'.status = "ok" =>
               /\ result_id' # 1
               /\ \A i \in DOMAIN result'.items :
                      \E j \in DOMAIN users : result'.items[i] = users[j] ]_vars

\* A call that kept every object, sorted them into another order than the
\* caller's list has and returned the slice that holds them all: the third
\* list object of the call. The caller's list is still in its own order.
C28_Witness ==
    /\ result.status = "ok"
    /\ result_id = 3
    /\ Len(result.items) = Len(users)
    /\ Len(users) >= 2
    /\ result.items # users
    /\ order_hist = << >>
    /\ IsSubclass(filter.cls, "OrderingFilter")

\* ---------------------------------------------------- claims on page sequences

\* The same filter asked for another page.
WithPage(self, page) ==
    [self EXCEPT !.vals[FieldIndex(self.cls, s_page)] = IntV(page)]

\* What apply_filter returns for that page of the same collection.
PageOf(page) == apply_filter(WithPage(filter, page), users)

\* Pages first..last one after the other.
RECURSIVE ConcatPages(_, _)
ConcatPages(first, last) ==
    IF first > last THEN << >>
    ELSE PageOf(first).items \o ConcatPages(first + 1, last)

\* The number of pages that hold an item.
PageCount ==
    (Len(FullList) + Field(filter, s_page_size).i - 1) \div Field(filter, s_page_size).i

\* C29: for a fixed collection, filter and sort and any valid page_size,
\* page p is the slice of the filtered and sorted list from (p-1)*page_size
\* up to p*page_size, so the pages are consecutive and disjoint, none is
\* longer than page_size, the pages after the last item are empty, and pages
\* 1, 2, 3, ... put one after the other give the whole list.
C29_PagesPartition ==
    Paging =>
        \A page_size \in { Field(filter, s_page_size).i } :
        \A full \in { FullList } :
        \A pages \in { (Len(full) + page_size - 1) \div page_size } :
            /\ page_size >= 1
            /\ \A p \in 1..(pages + 2) : \A page \in { PageOf(p) } :
                   /\ page.status = "ok"
                   /\ Len(page.items) <= page_size
                   /\ page.items =
                          SubSeq(full, (p - 1) * page_size + 1,
                                 Min(p * page_size, Len(full)))
                   /\ p > pages => page.items = << >>
            /\ ConcatPages(1, pages + 2) = full

\* Three users by descending age in pages of two: the second page holds the
\* youngest alone, and there are two pages.
C29_Witness ==
    /\ Paging
    /\ users = Fixture
    /\ Field(filter, s_page_size) = IntV(2)
    /\ Field(filter, s_page) = IntV(2)
    /\ Field(filter, s_sort) = ListV(<< << "-" >> \o s_age >>)
    /\ PageCount = 2
    /\ Ids(result.items) = << 1 >>
    /\ Ids(PageOf(1).items) = << 3, 2 >>

\* -------------------------------------------------------- claims on sort fields

\* get_order_by() has run on a validated filter that sorts.
Ordered ==
    /\ Ready
    /\ IsSubclass(filter.cls, "OrderingFilter")
    /\ Len(order_hist) >= 1
    /\ ~IsNone(Field(filter, s_sort))

\* C30: for every validated filter, every SortOperation get_order_by()
\* returns names a field of ordering_fields, also for tokens such as
\* "--name" and "+-age": the field is the token without the whole leading run
\* of signs, the name validation looked up, and desc is true exactly when the
\* first character of the token is "-".
C30_SortFieldsAllowed ==
    Ordered =>
        \A k \in 1..Len(order_hist) :
            /\ Len(order_hist[k]) = Len(Field(filter, s_sort).l)
            /\ \A i \in DOMAIN order_hist[k] :
                  LET token == Field(filter, s_sort).l[i]
                  IN  /\ order_hist[k][i].kind = "sort"
                      /\ order_hist[k][i].field \in ordering_fields(filter.cls)
                      /\ order_hist[k][i].field = Unsigned(token)
                      /\ order_hist[k][i].desc = (token[1] = "-")

\* "--name" and "+-age" passed validation and compiled to name descending
\* and age ascending.
C30_Witness ==
    /\ Ordered
    /\ Field(filter, s_sort) =
          ListV(<< << "-", "-" >> \o s_name, << "+", "-" >> \o s_age >>)
    /\ order_hist[1] = << SortOperation(s_name, TRUE), SortOperation(s_age, FALSE) >>

====
